---- MODULE Spec2Model ----
(***************************************************************************)
(* A model of parse-style: terminal text styles (foreground, background,   *)
(* enabled and disabled attributes), their builder operations, patch,      *)
(* Display and FromStr.                                                    *)
(*                                                                         *)
(* Text is modelled at character level.  A Rust `char` is a TLA+ string:   *)
(* an ASCII character is the one-character string holding it, a non-ASCII  *)
(* character is named by its code point ("U+00A0").  A Rust `&str` or      *)
(* `String` is a sequence of such characters.                              *)
(***************************************************************************)
EXTENDS Integers, Sequences, FiniteSets, TLC

VARIABLES
    style,      \* the Style value a client of the library holds
    text,       \* the string style.to_string() returned
    parsed,     \* the result of the last Style::from_str
    self_,      \* patch: the receiver
    other,      \* patch: the argument
    patched,    \* patch: the returned Style
    input,      \* from_str: the string being parsed
    words,      \* from_str: the tokens split_whitespace has not yielded yet
    acc,        \* from_str: the local variable `style`
    token,      \* from_str: the token the loop last dispatched on
    outcome,    \* from_str: the returned Result, once it has returned
    pc,         \* from_str: where control is
    attrset,    \* the AttributeSet a client of the library holds
    setiter,    \* the AttributeSetIter of set.into_iter()
    yielded,    \* what the calls of next() and next_back() returned, in order
    color       \* the color a client of the library holds

vars ==
    <<style, text, parsed, self_, other, patched, input, words, acc, token, outcome, pc,
      attrset, setiter, yielded, color>>

(***************************************************************************)
(* Characters and strings                                                  *)
(***************************************************************************)

\* The characters of a literal, in order.
Str(lit) == [i \in 1..Len(lit) |-> SubSeq(lit, i, i)]

RECURSIVE Concat(_)
\* The concatenation of a sequence of strings.
Concat(parts) == IF parts = <<>> THEN <<>> ELSE Head(parts) \o Concat(Tail(parts))

UPPERCASE == Str("ABCDEFGHIJKLMNOPQRSTUVWXYZ")
LOWERCASE == Str("abcdefghijklmnopqrstuvwxyz")
DIGITS == Str("0123456789")
HEXDIGITS == Str("0123456789abcdef")

Range(seq) == {seq[i] : i \in DOMAIN seq}
IndexOf(seq, x) == CHOOSE i \in DOMAIN seq : seq[i] = x

\* The UTF-8 length of a character: str::len and split_at_checked count bytes.
len_utf8(c) ==
    IF Len(c) = 1 THEN 1
    ELSE IF c \in {"U+00A0", "U+0085", "U+00F6"} THEN 2
    ELSE 3

RECURSIVE str_len(_)
str_len(s) == IF s = <<>> THEN 0 ELSE len_utf8(Head(s)) + str_len(Tail(s))

\* char::to_ascii_lowercase: only A..Z change.
char_to_ascii_lowercase(c) ==
    IF c \in Range(UPPERCASE) THEN LOWERCASE[IndexOf(UPPERCASE, c)] ELSE c

char_to_ascii_uppercase(c) ==
    IF c \in Range(LOWERCASE) THEN UPPERCASE[IndexOf(LOWERCASE, c)] ELSE c

to_ascii_lowercase(s) == [i \in DOMAIN s |-> char_to_ascii_lowercase(s[i])]

to_ascii_uppercase(s) == [i \in DOMAIN s |-> char_to_ascii_uppercase(s[i])]

eq_ignore_ascii_case(a, b) == to_ascii_lowercase(a) = to_ascii_lowercase(b)

\* u8::is_ascii_whitespace in the place of char::is_whitespace.
is_whitespace_ascii(c) == c \in {" ", "\t", "\n", "\r", "\f"}

\* char::is_whitespace: the Unicode White_Space property, which trim and
\* split_whitespace use.
is_whitespace(c) ==
    c \in {" ", "\t", "\n", "\r", "\f", "U+000B", "U+0085", "U+00A0", "U+1680",
           "U+2000", "U+2001", "U+2002", "U+2003", "U+2004", "U+2005", "U+2006",
           "U+2007", "U+2008", "U+2009", "U+200A", "U+2028", "U+2029", "U+202F",
           "U+205F", "U+3000"}

is_ascii_hexdigit(c) == char_to_ascii_lowercase(c) \in Range(HEXDIGITS)

is_ascii_digit(c) == c \in Range(DIGITS)

RECURSIVE trim_start(_)
trim_start(s) ==
    IF s # <<>> /\ is_whitespace(Head(s)) THEN trim_start(Tail(s)) ELSE s

RECURSIVE trim_end(_)
trim_end(s) ==
    IF s # <<>> /\ is_whitespace(s[Len(s)])
    THEN trim_end(SubSeq(s, 1, Len(s) - 1))
    ELSE s

trim(s) == trim_end(trim_start(s))

\* The pieces of s between the characters satisfying the separator test
\* (sep[c] is TRUE for a separator), empty pieces kept: one piece after the
\* start of s and one after each separator, up to the next separator or the
\* end of s.
SplitOn(s, sep) ==
    LET cuts == {i \in DOMAIN s : sep[s[i]]}
        starts == {0} \cup cuts
        nth(k) == CHOOSE b \in starts : Cardinality({x \in starts : x < b}) = k - 1
        stop(b) == IF \E c \in cuts : c > b
                   THEN CHOOSE c \in cuts : c > b /\ \A d \in cuts : d > b => c <= d
                   ELSE Len(s) + 1
    IN  [k \in 1..Cardinality(starts) |-> SubSeq(s, nth(k) + 1, stop(nth(k)) - 1)]

\* str::split_whitespace: the non-empty pieces between whitespace characters.
split_whitespace(s) ==
    SelectSeq(SplitOn(s, [c \in Range(s) |-> is_whitespace(c)]),
              LAMBDA w : w # <<>>)

\* str::split(','): every piece, empty ones included.
split_comma(s) == SplitOn(s, [c \in Range(s) |-> c = ","])

\* Option and Result values.
None == [tag |-> "None"]
Some(v) == [tag |-> "Some", val |-> v]
Ok(v) == [tag |-> "Ok", val |-> v]
Err(e) == [tag |-> "Err", err |-> e]

\* str::strip_prefix and str::strip_suffix with a one-character pattern.
strip_prefix(s, c) ==
    IF s # <<>> /\ Head(s) = c THEN Some(Tail(s)) ELSE None

strip_suffix(s, c) ==
    IF s # <<>> /\ s[Len(s)] = c THEN Some(SubSeq(s, 1, Len(s) - 1)) ELSE None

\* str::split_at_checked(mid): mid is a byte offset; None when it is past the
\* end or inside a character.
split_at_checked(s, mid) ==
    LET cuts == {k \in 0..Len(s) : str_len(SubSeq(s, 1, k)) = mid}
    IN  IF cuts = {} THEN None
        ELSE LET k == CHOOSE k \in cuts : TRUE
             IN  Some(<<SubSeq(s, 1, k), SubSeq(s, k + 1, Len(s))>>)

strip_nocase_prefix(s, prefix) ==
    LET cut == split_at_checked(s, str_len(prefix))
    IN  IF cut = None THEN None
        ELSE IF eq_ignore_ascii_case(cut.val[1], prefix) THEN Some(cut.val[2])
        ELSE None

RECURSIVE DigitsValue(_, _, _)
\* The value of a string of digits in the given radix, read left to right.
DigitsValue(s, radix, sofar) ==
    IF s = <<>> THEN sofar
    ELSE DigitsValue(Tail(s), radix,
                     sofar * radix + (IndexOf(HEXDIGITS, char_to_ascii_lowercase(Head(s))) - 1))

U8_MAX == 255

\* u8::from_str: an optional "+", then one or more decimal digits whose value
\* fits a u8.
parse_u8(s) ==
    LET digits == IF s # <<>> /\ Head(s) = "+" THEN Tail(s) ELSE s
    IN  IF digits = <<>> \/ \E i \in DOMAIN digits : ~is_ascii_digit(digits[i])
        THEN None
        ELSE LET v == DigitsValue(digits, 10, 0)
             IN  IF v > U8_MAX THEN None ELSE Some(v)

\* u8::from_str_radix(_, 16) on two hexadecimal digits.
from_str_radix16(s) == DigitsValue(s, 16, 0)

RECURSIVE FormatDecimal(_)
\* "{}" of an unsigned integer.
FormatDecimal(n) ==
    IF n < 10 THEN <<DIGITS[n + 1]>>
    ELSE Append(FormatDecimal(n \div 10), DIGITS[(n % 10) + 1])

\* "{:02x}" of a u8.
FormatHex2(n) == <<HEXDIGITS[(n \div 16) + 1], HEXDIGITS[(n % 16) + 1]>>

(***************************************************************************)
(* Attribute and AttributeSet (attributes.rs)                              *)
(***************************************************************************)

\* The variants of Attribute in declaration order, which is the order
\* Attribute::iter() yields them in.
Attribute_iter ==
    <<"Bold", "Dim", "Italic", "Underline", "Blink", "Blink2", "Reverse",
      "Conceal", "Strike", "Underline2", "Frame", "Encircle", "Overline">>

Attribute == Range(Attribute_iter)

COUNT == 13

\* `attr as u16`: the discriminant 1 << k of the k-th variant.
Discriminant(attr) == 2 ^ (IndexOf(Attribute_iter, attr) - 1)

as_str(attr) ==
    CASE attr = "Bold" -> Str("bold")
      [] attr = "Dim" -> Str("dim")
      [] attr = "Italic" -> Str("italic")
      [] attr = "Underline" -> Str("underline")
      [] attr = "Blink" -> Str("blink")
      [] attr = "Blink2" -> Str("blink2")
      [] attr = "Reverse" -> Str("reverse")
      [] attr = "Conceal" -> Str("conceal")
      [] attr = "Strike" -> Str("strike")
      [] attr = "Underline2" -> Str("underline2")
      [] attr = "Frame" -> Str("frame")
      [] attr = "Encircle" -> Str("encircle")
      [] attr = "Overline" -> Str("overline")

\* impl FromStr for Attribute: the match arms on the lowercased input.
ATTRIBUTE_WORDS ==
    {<<"bold", "Bold">>, <<"b", "Bold">>, <<"dim", "Dim">>, <<"d", "Dim">>,
     <<"italic", "Italic">>, <<"i", "Italic">>,
     <<"underline", "Underline">>, <<"u", "Underline">>,
     <<"blink", "Blink">>, <<"blink2", "Blink2">>,
     <<"reverse", "Reverse">>, <<"r", "Reverse">>,
     <<"conceal", "Conceal">>, <<"c", "Conceal">>,
     <<"strike", "Strike">>, <<"s", "Strike">>,
     <<"underline2", "Underline2">>, <<"uu", "Underline2">>,
     <<"frame", "Frame">>, <<"encircle", "Encircle">>,
     <<"overline", "Overline">>}

ATTRIBUTE_ARMS == {<<Str(e[1]), e[2]>> : e \in ATTRIBUTE_WORDS}

AttributeArms ==
    [w \in {p[1] : p \in ATTRIBUTE_ARMS} |->
        (CHOOSE p \in ATTRIBUTE_ARMS : p[1] = w)[2]]

\* Attribute::from_str whose error holds the lowercased string.
Attribute_from_str_lowercased_error(s) ==
    LET low == to_ascii_lowercase(s)
    IN  IF low \in DOMAIN AttributeArms THEN Ok(AttributeArms[low])
        ELSE Err([type |-> "ParseAttributeError", text |-> low])

\* Attribute::from_str matching the words as they are written.
Attribute_from_str_case_sensitive(s) ==
    IF s \in DOMAIN AttributeArms THEN Ok(AttributeArms[s])
    ELSE Err([type |-> "ParseAttributeError", text |-> s])

Attribute_from_str(s) ==
    LET low == to_ascii_lowercase(s)
    IN  IF low \in DOMAIN AttributeArms THEN Ok(AttributeArms[low])
        ELSE Err([type |-> "ParseAttributeError", text |-> s])

\* An AttributeSet is its u16 bit mask; u16 operators work bit by bit.
U16_BITS == 16

RECURSIVE BitAndN(_, _, _)
BitAndN(a, b, n) ==
    IF n = 0 THEN 0
    ELSE (IF a % 2 = 1 /\ b % 2 = 1 THEN 1 ELSE 0) + 2 * BitAndN(a \div 2, b \div 2, n - 1)

RECURSIVE BitOrN(_, _, _)
BitOrN(a, b, n) ==
    IF n = 0 THEN 0
    ELSE (IF a % 2 = 1 \/ b % 2 = 1 THEN 1 ELSE 0) + 2 * BitOrN(a \div 2, b \div 2, n - 1)

RECURSIVE BitXorN(_, _, _)
BitXorN(a, b, n) ==
    IF n = 0 THEN 0
    ELSE (IF a % 2 # b % 2 THEN 1 ELSE 0) + 2 * BitXorN(a \div 2, b \div 2, n - 1)

u16_and(a, b) == BitAndN(a, b, U16_BITS)
u16_or(a, b) == BitOrN(a, b, U16_BITS)
u16_xor(a, b) == BitXorN(a, b, U16_BITS)
\* `!x` on a u16 flips all 16 bits.
u16_not(a) == (2 ^ U16_BITS - 1) - a

EMPTY == 0
ALL == 2 ^ COUNT - 1

AttributeSet_new == 0
AttributeSet_is_empty(set) == set = 0
is_all(set) == set = ALL
contains(set, attr) == u16_and(set, Discriminant(attr)) # 0

\* impl From<Attribute> for AttributeSet
AttributeSet_from(attr) == Discriminant(attr)

bitand(a, b) == u16_and(a, b)
bitor(a, b) == u16_or(a, b)
bitxor(a, b) == u16_xor(a, b)
sub(a, b) == u16_and(a, u16_not(b))
\* ! with a mask one bit short.
not_short_mask(a) == u16_and(u16_not(a), 2 ^ (COUNT - 1) - 1)

\* ! of the u16 without the mask.
not_unmasked(a) == u16_not(a)

not(a) == u16_and(u16_not(a), 2 ^ COUNT - 1)
\* impl Not for Attribute
Attribute_not(attr) == sub(ALL, AttributeSet_from(attr))

RECURSIVE from_iter(_)
\* impl FromIterator<Attribute> for AttributeSet: fold with |.
from_iter(attrs) ==
    IF attrs = <<>> THEN AttributeSet_new
    ELSE bitor(from_iter(SubSeq(attrs, 1, Len(attrs) - 1)),
               AttributeSet_from(attrs[Len(attrs)]))

\* The set built from the members of a TLA+ set of attributes.
SetOf(S) == from_iter(SelectSeq(Attribute_iter, LAMBDA a : a \in S))

\* The members of an AttributeSet, as a TLA+ set.
Members(set) == {a \in Attribute : contains(set, a)}

(***************************************************************************)
(* Color256, RgbColor and Color (color256.rs, rgbcolor.rs, color.rs)       *)
(***************************************************************************)

Color_Default == [tag |-> "Default"]
Color256(i) == [tag |-> "Color256", index |-> i]
RgbColor(r, g, b) == [tag |-> "Rgb", red |-> r, green |-> g, blue |-> b]

ParseColorError(s) == [type |-> "ParseColorError", text |-> s]

\* Color256::name: the match arm of each index 0..255, "" where the arm is
\* `None`.
NAME_TABLE ==
  <<
     "black", "red", "green", "yellow", "blue", "magenta",
     "cyan", "white", "bright_black", "bright_red", "bright_green", "bright_yellow",
     "bright_blue", "bright_magenta", "bright_cyan", "bright_white", "gray0", "navy_blue",
     "dark_blue", "", "blue3", "blue1", "dark_green", "",
     "", "deep_sky_blue4", "dodger_blue3", "dodger_blue2", "green4", "spring_green4",
     "turquoise4", "", "deep_sky_blue3", "dodger_blue1", "", "",
     "dark_cyan", "light_sea_green", "deep_sky_blue2", "deep_sky_blue1", "green3", "spring_green3",
     "", "cyan3", "dark_turquoise", "turquoise2", "green1", "spring_green2",
     "spring_green1", "medium_spring_green", "cyan2", "cyan1", "", "",
     "", "purple4", "purple3", "blue_violet", "", "gray37",
     "medium_purple4", "", "slate_blue3", "royal_blue1", "chartreuse4", "",
     "pale_turquoise4", "steel_blue", "steel_blue3", "cornflower_blue", "", "dark_sea_green4",
     "", "cadet_blue", "sky_blue3", "", "chartreuse3", "",
     "sea_green3", "aquamarine3", "medium_turquoise", "steel_blue1", "", "sea_green2",
     "", "sea_green1", "", "dark_slate_gray2", "dark_red", "",
     "", "dark_magenta", "", "", "orange4", "light_pink4",
     "plum4", "", "medium_purple3", "slate_blue1", "", "wheat4",
     "gray53", "light_slate_gray", "medium_purple", "light_slate_blue", "yellow4", "",
     "dark_sea_green", "", "light_sky_blue3", "sky_blue2", "chartreuse2", "",
     "pale_green3", "", "dark_slate_gray3", "sky_blue1", "chartreuse1", "",
     "light_green", "", "aquamarine1", "dark_slate_gray1", "", "deep_pink4",
     "medium_violet_red", "", "dark_violet", "purple", "", "",
     "", "medium_orchid3", "medium_orchid", "", "dark_goldenrod", "",
     "rosy_brown", "gray63", "medium_purple2", "medium_purple1", "", "dark_khaki",
     "navajo_white3", "gray69", "light_steel_blue3", "light_steel_blue", "", "dark_olive_green3",
     "dark_sea_green3", "", "light_cyan3", "light_sky_blue1", "green_yellow", "dark_olive_green2",
     "pale_green1", "dark_sea_green2", "", "pale_turquoise1", "red3", "",
     "deep_pink3", "", "magenta3", "", "dark_orange3", "indian_red",
     "hot_pink3", "hot_pink2", "orchid", "", "orange3", "light_salmon3",
     "light_pink3", "pink3", "plum3", "violet", "gold3", "light_goldenrod3",
     "tan", "misty_rose3", "thistle3", "plum2", "yellow3", "khaki3",
     "", "light_yellow3", "gray84", "light_steel_blue1", "yellow2", "",
     "dark_olive_green1", "dark_sea_green1", "honeydew2", "light_cyan1", "red1", "deep_pink2",
     "", "deep_pink1", "magenta2", "magenta1", "orange_red1", "",
     "indian_red1", "", "hot_pink", "medium_orchid1", "dark_orange", "salmon1",
     "light_coral", "pale_violet_red1", "orchid2", "orchid1", "orange1", "sandy_brown",
     "light_salmon1", "light_pink1", "pink1", "plum1", "gold1", "",
     "light_goldenrod2", "navajo_white1", "misty_rose1", "thistle1", "yellow1", "light_goldenrod1",
     "khaki1", "wheat1", "cornsilk1", "gray100", "gray3", "gray7",
     "gray11", "gray15", "gray19", "gray23", "gray27", "gray30",
     "gray35", "gray39", "gray42", "gray46", "gray50", "gray54",
     "gray58", "gray62", "gray66", "gray70", "gray74", "gray78",
     "gray82", "gray85", "gray89", "gray93"
  >>

name(index) ==
    IF NAME_TABLE[index + 1] = "" THEN None ELSE Some(Str(NAME_TABLE[index + 1]))

\* The entries of the static map BY_NAME.
BY_NAME_ENTRIES ==
  {
     <<"black", 0>>, <<"red", 1>>, <<"green", 2>>, <<"yellow", 3>>,
     <<"blue", 4>>, <<"magenta", 5>>, <<"cyan", 6>>, <<"white", 7>>,
     <<"bright_black", 8>>, <<"bright_red", 9>>, <<"bright_green", 10>>, <<"bright_yellow", 11>>,
     <<"bright_blue", 12>>, <<"bright_magenta", 13>>, <<"bright_cyan", 14>>, <<"bright_white", 15>>,
     <<"grey0", 16>>, <<"gray0", 16>>, <<"navy_blue", 17>>, <<"dark_blue", 18>>,
     <<"blue3", 20>>, <<"blue1", 21>>, <<"dark_green", 22>>, <<"deep_sky_blue4", 25>>,
     <<"dodger_blue3", 26>>, <<"dodger_blue2", 27>>, <<"green4", 28>>, <<"spring_green4", 29>>,
     <<"turquoise4", 30>>, <<"deep_sky_blue3", 32>>, <<"dodger_blue1", 33>>, <<"green3", 40>>,
     <<"spring_green3", 41>>, <<"dark_cyan", 36>>, <<"light_sea_green", 37>>, <<"deep_sky_blue2", 38>>,
     <<"deep_sky_blue1", 39>>, <<"spring_green2", 47>>, <<"cyan3", 43>>, <<"dark_turquoise", 44>>,
     <<"turquoise2", 45>>, <<"green1", 46>>, <<"spring_green1", 48>>, <<"medium_spring_green", 49>>,
     <<"cyan2", 50>>, <<"cyan1", 51>>, <<"dark_red", 88>>, <<"deep_pink4", 125>>,
     <<"purple4", 55>>, <<"purple3", 56>>, <<"blue_violet", 57>>, <<"orange4", 94>>,
     <<"grey37", 59>>, <<"gray37", 59>>, <<"medium_purple4", 60>>, <<"slate_blue3", 62>>,
     <<"royal_blue1", 63>>, <<"chartreuse4", 64>>, <<"dark_sea_green4", 71>>, <<"pale_turquoise4", 66>>,
     <<"steel_blue", 67>>, <<"steel_blue3", 68>>, <<"cornflower_blue", 69>>, <<"chartreuse3", 76>>,
     <<"cadet_blue", 73>>, <<"sky_blue3", 74>>, <<"steel_blue1", 81>>, <<"pale_green3", 114>>,
     <<"sea_green3", 78>>, <<"aquamarine3", 79>>, <<"medium_turquoise", 80>>, <<"chartreuse2", 112>>,
     <<"sea_green2", 83>>, <<"sea_green1", 85>>, <<"aquamarine1", 122>>, <<"dark_slate_gray2", 87>>,
     <<"dark_magenta", 91>>, <<"dark_violet", 128>>, <<"purple", 129>>, <<"light_pink4", 95>>,
     <<"plum4", 96>>, <<"medium_purple3", 98>>, <<"slate_blue1", 99>>, <<"yellow4", 106>>,
     <<"wheat4", 101>>, <<"grey53", 102>>, <<"gray53", 102>>, <<"light_slate_grey", 103>>,
     <<"light_slate_gray", 103>>, <<"medium_purple", 104>>, <<"light_slate_blue", 105>>, <<"dark_olive_green3", 149>>,
     <<"dark_sea_green", 108>>, <<"light_sky_blue3", 110>>, <<"sky_blue2", 111>>, <<"dark_sea_green3", 150>>,
     <<"dark_slate_gray3", 116>>, <<"sky_blue1", 117>>, <<"chartreuse1", 118>>, <<"light_green", 120>>,
     <<"pale_green1", 156>>, <<"dark_slate_gray1", 123>>, <<"red3", 160>>, <<"medium_violet_red", 126>>,
     <<"magenta3", 164>>, <<"dark_orange3", 166>>, <<"indian_red", 167>>, <<"hot_pink3", 168>>,
     <<"medium_orchid3", 133>>, <<"medium_orchid", 134>>, <<"medium_purple2", 140>>, <<"dark_goldenrod", 136>>,
     <<"light_salmon3", 173>>, <<"rosy_brown", 138>>, <<"grey63", 139>>, <<"gray63", 139>>,
     <<"medium_purple1", 141>>, <<"gold3", 178>>, <<"dark_khaki", 143>>, <<"navajo_white3", 144>>,
     <<"grey69", 145>>, <<"gray69", 145>>, <<"light_steel_blue3", 146>>, <<"light_steel_blue", 147>>,
     <<"yellow3", 184>>, <<"dark_sea_green2", 157>>, <<"light_cyan3", 152>>, <<"light_sky_blue1", 153>>,
     <<"green_yellow", 154>>, <<"dark_olive_green2", 155>>, <<"dark_sea_green1", 193>>, <<"pale_turquoise1", 159>>,
     <<"deep_pink3", 162>>, <<"magenta2", 200>>, <<"hot_pink2", 169>>, <<"orchid", 170>>,
     <<"medium_orchid1", 207>>, <<"orange3", 172>>, <<"light_pink3", 174>>, <<"pink3", 175>>,
     <<"plum3", 176>>, <<"violet", 177>>, <<"light_goldenrod3", 179>>, <<"tan", 180>>,
     <<"misty_rose3", 181>>, <<"thistle3", 182>>, <<"plum2", 183>>, <<"khaki3", 185>>,
     <<"light_goldenrod2", 222>>, <<"light_yellow3", 187>>, <<"grey84", 188>>, <<"gray84", 188>>,
     <<"light_steel_blue1", 189>>, <<"yellow2", 190>>, <<"dark_olive_green1", 192>>, <<"honeydew2", 194>>,
     <<"light_cyan1", 195>>, <<"red1", 196>>, <<"deep_pink2", 197>>, <<"deep_pink1", 199>>,
     <<"magenta1", 201>>, <<"orange_red1", 202>>, <<"indian_red1", 204>>, <<"hot_pink", 206>>,
     <<"dark_orange", 208>>, <<"salmon1", 209>>, <<"light_coral", 210>>, <<"pale_violet_red1", 211>>,
     <<"orchid2", 212>>, <<"orchid1", 213>>, <<"orange1", 214>>, <<"sandy_brown", 215>>,
     <<"light_salmon1", 216>>, <<"light_pink1", 217>>, <<"pink1", 218>>, <<"plum1", 219>>,
     <<"gold1", 220>>, <<"navajo_white1", 223>>, <<"misty_rose1", 224>>, <<"thistle1", 225>>,
     <<"yellow1", 226>>, <<"light_goldenrod1", 227>>, <<"khaki1", 228>>, <<"wheat1", 229>>,
     <<"cornsilk1", 230>>, <<"grey100", 231>>, <<"gray100", 231>>, <<"grey3", 232>>,
     <<"gray3", 232>>, <<"grey7", 233>>, <<"gray7", 233>>, <<"grey11", 234>>,
     <<"gray11", 234>>, <<"grey15", 235>>, <<"gray15", 235>>, <<"grey19", 236>>,
     <<"gray19", 236>>, <<"grey23", 237>>, <<"gray23", 237>>, <<"grey27", 238>>,
     <<"gray27", 238>>, <<"grey30", 239>>, <<"gray30", 239>>, <<"grey35", 240>>,
     <<"gray35", 240>>, <<"grey39", 241>>, <<"gray39", 241>>, <<"grey42", 242>>,
     <<"gray42", 242>>, <<"grey46", 243>>, <<"gray46", 243>>, <<"grey50", 244>>,
     <<"gray50", 244>>, <<"grey54", 245>>, <<"gray54", 245>>, <<"grey58", 246>>,
     <<"gray58", 246>>, <<"grey62", 247>>, <<"gray62", 247>>, <<"grey66", 248>>,
     <<"gray66", 248>>, <<"grey70", 249>>, <<"gray70", 249>>, <<"grey74", 250>>,
     <<"gray74", 250>>, <<"grey78", 251>>, <<"gray78", 251>>, <<"grey82", 252>>,
     <<"gray82", 252>>, <<"grey85", 253>>, <<"gray85", 253>>, <<"grey89", 254>>,
     <<"gray89", 254>>, <<"grey93", 255>>, <<"gray93", 255>>
  }

\* BY_NAME keyed by UniCase::ascii: keys compare and hash without regard to
\* ASCII case, and every key of the table is lowercase.
BY_NAME_PAIRS == {<<Str(e[1]), e[2]>> : e \in BY_NAME_ENTRIES}

BY_NAME ==
    [k \in {p[1] : p \in BY_NAME_PAIRS} |->
        (CHOOSE p \in BY_NAME_PAIRS : p[1] = k)[2]]

BY_NAME_get(s) ==
    LET key == to_ascii_lowercase(s)
    IN  IF key \in DOMAIN BY_NAME THEN Some(BY_NAME[key]) ELSE None

\* Display for Color256 that looks the name up by the index plus one.
Color256_fmt_next_name(index) ==
    IF index < U8_MAX /\ name(index + 1) # None THEN name(index + 1).val
    ELSE Str("color(") \o FormatDecimal(index) \o Str(")")

Color256_fmt(index) ==
    IF name(index) # None THEN name(index).val
    ELSE Str("color(") \o FormatDecimal(index) \o Str(")")

\* A chain of Option::and_then.
OptionIndex(s) ==
    LET stripped == strip_nocase_prefix(s, Str("color("))
    IN  IF stripped = None THEN None
        ELSE LET inner == strip_suffix(stripped.val, ")")
             IN  IF inner = None THEN None ELSE parse_u8(inner.val)

Color256_from_str(s) ==
    IF BY_NAME_get(s) # None THEN Ok(Color256(BY_NAME_get(s).val))
    ELSE IF OptionIndex(s) # None THEN Ok(Color256(OptionIndex(s).val))
    ELSE Err(ParseColorError(s))

\* Display for RgbColor with {:x} in place of {:02x}.
RgbColor_fmt_unpadded(c) ==
    LET Hex(n) == IF n < 16 THEN SubSeq(FormatHex2(n), 2, 2) ELSE FormatHex2(n)
    IN  Str("#") \o Hex(c.red) \o Hex(c.green) \o Hex(c.blue)

\* Display for RgbColor with {:02X}.
RgbColor_fmt_uppercase(c) ==
    Str("#") \o to_ascii_uppercase(FormatHex2(c.red) \o FormatHex2(c.green)
                                   \o FormatHex2(c.blue))

RgbColor_fmt(c) ==
    Str("#") \o FormatHex2(c.red) \o FormatHex2(c.green) \o FormatHex2(c.blue)

HEX_LEN == 6

\* strip_prefix('#') filtered by lowercase hexadecimal digits only.
OptionHex_lowercase_only(s) ==
    LET hex == strip_prefix(s, "#")
    IN  IF hex = None THEN None
        ELSE IF (\A i \in DOMAIN hex.val : hex.val[i] \in Range(HEXDIGITS))
                /\ str_len(hex.val) = HEX_LEN
        THEN hex
        ELSE None

\* strip_prefix('#') filtered by: all hex digits and six bytes long.
OptionHex(s) ==
    LET hex == strip_prefix(s, "#")
    IN  IF hex = None THEN None
        ELSE IF (\A i \in DOMAIN hex.val : is_ascii_hexdigit(hex.val[i]))
                /\ str_len(hex.val) = HEX_LEN
        THEN hex
        ELSE None

OptionDec(s) ==
    LET stripped == strip_nocase_prefix(s, Str("rgb("))
    IN  IF stripped = None THEN None ELSE strip_suffix(stripped.val, ")")

\* RgbColor::from_str whose rgb(...) error carries the text between the
\* parentheses.
RgbColor_from_str_inner_error(s) ==
    IF OptionHex(s) # None
    THEN LET hex == OptionHex(s).val
         IN  Ok(RgbColor(from_str_radix16(SubSeq(hex, 1, 2)),
                         from_str_radix16(SubSeq(hex, 3, 4)),
                         from_str_radix16(SubSeq(hex, 5, Len(hex)))))
    ELSE IF OptionDec(s) # None
    THEN LET rgb == split_comma(OptionDec(s).val)
         IN  IF Len(rgb) = 3 /\ (\A i \in 1..3 : parse_u8(rgb[i]) # None)
             THEN Ok(RgbColor(parse_u8(rgb[1]).val, parse_u8(rgb[2]).val,
                              parse_u8(rgb[3]).val))
             ELSE Err(ParseColorError(OptionDec(s).val))
    ELSE Err(ParseColorError(s))

RgbColor_from_str(s) ==
    IF OptionHex(s) # None
    THEN LET hex == OptionHex(s).val
         IN  Ok(RgbColor(from_str_radix16(SubSeq(hex, 1, 2)),
                         from_str_radix16(SubSeq(hex, 3, 4)),
                         from_str_radix16(SubSeq(hex, 5, Len(hex)))))
    ELSE IF OptionDec(s) # None
    THEN LET rgb == split_comma(OptionDec(s).val)
         IN  IF Len(rgb) = 3 /\ (\A i \in 1..3 : parse_u8(rgb[i]) # None)
             THEN Ok(RgbColor(parse_u8(rgb[1]).val, parse_u8(rgb[2]).val,
                              parse_u8(rgb[3]).val))
             ELSE Err(ParseColorError(s))
    ELSE Err(ParseColorError(s))

Color_fmt(c) ==
    CASE c.tag = "Default" -> Str("default")
      [] c.tag = "Color256" -> Color256_fmt(c.index)
      [] c.tag = "Rgb" -> RgbColor_fmt(c)

\* Color::from_str comparing with "default" as written.
Color_from_str_exact_default(s) ==
    IF s = Str("default") THEN Ok(Color_Default)
    ELSE IF Color256_from_str(s).tag = "Ok" THEN Color256_from_str(s)
    ELSE RgbColor_from_str(s)

\* Color::from_str taking "none" for the default color as well.
Color_from_str_none(s) ==
    IF eq_ignore_ascii_case(s, Str("default")) \/ eq_ignore_ascii_case(s, Str("none"))
    THEN Ok(Color_Default)
    ELSE IF Color256_from_str(s).tag = "Ok" THEN Color256_from_str(s)
    ELSE RgbColor_from_str(s)

Color_from_str(s) ==
    IF eq_ignore_ascii_case(s, Str("default")) THEN Ok(Color_Default)
    ELSE IF Color256_from_str(s).tag = "Ok" THEN Color256_from_str(s)
    ELSE RgbColor_from_str(s)

(***************************************************************************)
(* Style (style.rs)                                                        *)
(***************************************************************************)

Style(fg, bg, enabled, disabled) ==
    [foreground |-> fg, background |-> bg,
     enabled_attributes |-> enabled, disabled_attributes |-> disabled]

Style_new == Style(None, None, EMPTY, EMPTY)

foreground(self, fg) == [self EXCEPT !.foreground = fg]

background(self, bg) == [self EXCEPT !.background = bg]

\* enabled_attributes that adds to the enabled set instead of assigning it.
enabled_attributes_extend(self, attrs) ==
    [self EXCEPT !.enabled_attributes = bitor(self.enabled_attributes, attrs),
                 !.disabled_attributes = sub(self.disabled_attributes, attrs)]

enabled_attributes(self, attrs) ==
    [self EXCEPT !.enabled_attributes = attrs,
                 !.disabled_attributes = sub(self.disabled_attributes, attrs)]

disabled_attributes(self, attrs) ==
    [self EXCEPT !.disabled_attributes = attrs,
                 !.enabled_attributes = sub(self.enabled_attributes, attrs)]

Style_is_empty(self) ==
    /\ self.foreground = None
    /\ self.background = None
    /\ AttributeSet_is_empty(self.enabled_attributes)
    /\ AttributeSet_is_empty(self.disabled_attributes)

is_enabled(self, attr) ==
    contains(self.enabled_attributes, attr) /\ ~contains(self.disabled_attributes, attr)

is_disabled(self, attr) ==
    contains(self.disabled_attributes, attr) /\ ~contains(self.enabled_attributes, attr)

\* Option::or
or(a, b) == IF a # None THEN a ELSE b

\* patch whose attribute sets are plain unions, without the subtractions.
patch_union(self, o) ==
    Style(or(self.foreground, o.foreground),
          or(self.background, o.background),
          bitor(self.enabled_attributes, o.enabled_attributes),
          bitor(self.disabled_attributes, o.disabled_attributes))

\* patch with `other.foreground.or(self.foreground)`, and likewise for the
\* background.
patch_other_first(self, o) ==
    Style(or(o.foreground, self.foreground),
          or(o.background, self.background),
          bitor(sub(self.enabled_attributes, o.disabled_attributes), o.enabled_attributes),
          bitor(sub(self.disabled_attributes, o.enabled_attributes), o.disabled_attributes))

\* patch that does not take other's enabled attributes out of the disabled set.
patch_keep_disabled(self, o) ==
    Style(or(self.foreground, o.foreground),
          or(self.background, o.background),
          bitor(sub(self.enabled_attributes, o.disabled_attributes), o.enabled_attributes),
          bitor(self.disabled_attributes, o.disabled_attributes))

patch(self, o) ==
    Style(or(self.foreground, o.foreground),
          or(self.background, o.background),
          bitor(sub(self.enabled_attributes, o.disabled_attributes), o.enabled_attributes),
          bitor(sub(self.disabled_attributes, o.enabled_attributes), o.disabled_attributes))

\* enable without `self.disabled_attributes -= attrs`.
enable_keep_disabled(self, attrs) ==
    [self EXCEPT !.enabled_attributes = bitor(self.enabled_attributes, attrs)]

\* enable with `self.enabled_attributes = attrs` in place of `|=`.
enable_assign(self, attrs) ==
    [self EXCEPT !.enabled_attributes = attrs,
                 !.disabled_attributes = sub(self.disabled_attributes, attrs)]

enable(self, attrs) ==
    [self EXCEPT !.enabled_attributes = bitor(self.enabled_attributes, attrs),
                 !.disabled_attributes = sub(self.disabled_attributes, attrs)]

\* disable without `self.enabled_attributes -= attrs`.
disable_keep_enabled(self, attrs) ==
    [self EXCEPT !.disabled_attributes = bitor(self.disabled_attributes, attrs)]

disable(self, attrs) ==
    [self EXCEPT !.enabled_attributes = sub(self.enabled_attributes, attrs),
                 !.disabled_attributes = bitor(self.disabled_attributes, attrs)]

\* The flags of ratatui's Modifier that From<Modifier> for AttributeSet
\* matches on, and the attribute each arm adds.
MODIFIER_ARMS ==
    <<<<"BOLD", "Bold">>, <<"DIM", "Dim">>, <<"ITALIC", "Italic">>,
      <<"UNDERLINED", "Underline">>, <<"SLOW_BLINK", "Blink">>,
      <<"RAPID_BLINK", "Blink">>, <<"REVERSED", "Reverse">>,
      <<"HIDDEN", "Conceal">>, <<"CROSSED_OUT", "Strike">>>>

Modifier == {MODIFIER_ARMS[i][1] : i \in DOMAIN MODIFIER_ARMS}

RECURSIVE ModifierFold(_, _)
\* The loop over value.iter(): `set |= attr` for each flag of the modifier.
ModifierFold(mods, k) ==
    IF k = 0 THEN AttributeSet_new
    ELSE IF MODIFIER_ARMS[k][1] \in mods
    THEN bitor(ModifierFold(mods, k - 1), AttributeSet_from(MODIFIER_ARMS[k][2]))
    ELSE ModifierFold(mods, k - 1)

AttributeSet_from_modifier(mods) == ModifierFold(mods, Len(MODIFIER_ARMS))

\* impl From<ratatui_core::style::Style> for Style; value.fg and value.bg are
\* Option<Color> already converted.
Style_from_ratatui(value) ==
    Style(value.fg, value.bg,
          AttributeSet_from_modifier(value.add_modifier),
          AttributeSet_from_modifier(value.sub_modifier))

\* Display writes into a formatter: the text so far and the local `first`.
Formatter == [out |-> <<>>, first |-> TRUE]

\* `if !std::mem::replace(&mut first, false) { write!(f, " ") }` and then the
\* write of one piece.
WritePiece(f, piece) ==
    [out |-> (IF f.first THEN f.out ELSE f.out \o Str(" ")) \o piece, first |-> FALSE]

RECURSIVE FmtAttributes(_, _, _)
\* The loop `for attr in Attribute::iter()` of Display, from the k-th variant.
FmtAttributes(self, f, k) ==
    IF k > Len(Attribute_iter) THEN f
    ELSE LET attr == Attribute_iter[k]
         IN  IF is_enabled(self, attr)
             THEN FmtAttributes(self, WritePiece(f, as_str(attr)), k + 1)
             ELSE IF is_disabled(self, attr)
             THEN FmtAttributes(self, WritePiece(f, Str("not ") \o as_str(attr)), k + 1)
             ELSE FmtAttributes(self, f, k + 1)

FmtForeground(self, f) ==
    IF self.foreground # None THEN WritePiece(f, Color_fmt(self.foreground.val)) ELSE f

FmtBackground(self, f) ==
    IF self.background # None
    THEN WritePiece(f, Str("on ") \o Color_fmt(self.background.val))
    ELSE f

Style_fmt(self) ==
    LET f == FmtBackground(self, FmtForeground(self, FmtAttributes(self, Formatter, 1)))
    IN  IF f.first THEN Str("none") ELSE f.out

\* The early return of from_str, without the trim.
IsNoneString_untrimmed(s) == s = <<>> \/ eq_ignore_ascii_case(s, Str("none"))

\* The early return of from_str.
IsNoneString(s) == s = <<>> \/ eq_ignore_ascii_case(trim(s), Str("none"))

\* words.next().and_then(|s| s.parse::<Color>().ok())
NextColor(ws) ==
    IF ws = <<>> THEN None
    ELSE IF Color_from_str(Head(ws)).tag = "Ok" THEN Some(Color_from_str(Head(ws)).val)
    ELSE None

\* words.next().and_then(|s| s.parse::<Attribute>().ok())
NextAttribute(ws) ==
    IF ws = <<>> THEN None
    ELSE IF Attribute_from_str(Head(ws)).tag = "Ok"
    THEN Some(Attribute_from_str(Head(ws)).val)
    ELSE None

MissingBackground == [type |-> "MissingBackground"]
MissingAttribute == [type |-> "MissingAttribute"]
Token(tok) == [type |-> "Token", text |-> tok]

\* What one loop iteration leaves: the local style, the iterator, and the
\* error if the iteration returned one.
Continue(st, ws) == [style |-> st, words |-> ws, ret |-> None]
ReturnErr(st, ws, e) == [style |-> st, words |-> ws, ret |-> Some(Err(e))]

\* The "on" arm letting an `on` that ends the input pass.
OnArm_lenient(st, rest) ==
    IF rest = <<>> THEN Continue(st, rest)
    ELSE IF NextColor(rest) = None
    THEN ReturnErr(st, Tail(rest), MissingBackground)
    ELSE Continue([st EXCEPT !.background = Some(NextColor(rest).val)], Tail(rest))

\* The arm for the token "on"; rest holds the tokens after it.
OnArm(st, rest) ==
    IF NextColor(rest) = None
    THEN ReturnErr(st, IF rest = <<>> THEN rest ELSE Tail(rest), MissingBackground)
    ELSE Continue([st EXCEPT !.background = Some(NextColor(rest).val)], Tail(rest))

\* The arm for the token "not".
NotArm(st, rest) ==
    IF NextAttribute(rest) = None
    THEN ReturnErr(st, IF rest = <<>> THEN rest ELSE Tail(rest), MissingAttribute)
    ELSE Continue(disable(st, AttributeSet_from(NextAttribute(rest).val)), Tail(rest))

\* The arm for a token that parses as a Color.
ColorArm(st, tok, rest) ==
    Continue([st EXCEPT !.foreground = Some(Color_from_str(tok).val)], rest)

\* The attribute arm enabling the attribute on a fresh Style, dropping
\* what the loop has accumulated.
AttributeArm_fresh(st, tok, rest) ==
    Continue(enable(Style_new, AttributeSet_from(Attribute_from_str(tok).val)), rest)

\* The arm for a token that parses as an Attribute.
AttributeArm(st, tok, rest) ==
    Continue(enable(st, AttributeSet_from(Attribute_from_str(tok).val)), rest)

\* The final else reporting the token in lowercase.
ElseArm_lowercase(st, tok, rest) == ReturnErr(st, rest, Token(to_ascii_lowercase(tok)))

\* The final else.
ElseArm(st, tok, rest) == ReturnErr(st, rest, Token(tok))

\* One iteration of `while let Some(token) = words.next()`: ws holds the
\* tokens not yet yielded, its head being `token`.
LoopBody(st, ws) ==
    LET tok == Head(ws)
        rest == Tail(ws)
    IN  IF eq_ignore_ascii_case(tok, Str("on")) THEN OnArm(st, rest)
        ELSE IF eq_ignore_ascii_case(tok, Str("not")) THEN NotArm(st, rest)
        ELSE IF Color_from_str(tok).tag = "Ok" THEN ColorArm(st, tok, rest)
        ELSE IF Attribute_from_str(tok).tag = "Ok" THEN AttributeArm(st, tok, rest)
        ELSE ElseArm(st, tok, rest)

RECURSIVE WhileLoop(_, _)
WhileLoop(st, ws) ==
    IF ws = <<>> THEN Ok(st)
    ELSE LET it == LoopBody(st, ws)
         IN  IF it.ret # None THEN it.ret.val ELSE WhileLoop(it.style, it.words)

Style_from_str(s) ==
    IF IsNoneString(s) THEN Ok(Style_new) ELSE WhileLoop(Style_new, split_whitespace(s))

(***************************************************************************)
(* Bounded inputs                                                          *)
(***************************************************************************)

Null == [tag |-> "Null"]

\* The attribute sets handed to the builder operations: the thirteen
\* attributes in three groups, the empty set and the full set.
GROUPS ==
    {{"Bold"},
     {"Dim", "Italic", "Underline", "Blink", "Blink2", "Reverse", "Conceal"},
     {"Strike", "Underline2", "Frame", "Encircle", "Overline"}}

AttrArgs == {EMPTY, ALL} \cup {SetOf(g) : g \in GROUPS}

\* The colors handed to foreground() and background(): every variant, named
\* and nameless Color256 indices, a gray/grey one, an RgbColor needing zero
\* padding.
FgArgs == {None, Some(Color_Default), Some(Color256(1)), Some(RgbColor(0, 10, 255))}

BgArgs == {None, Some(Color256(42)), Some(Color256(244))}

\* Styles a client builds with the builder chain, to patch with.
PatchArgs ==
    {foreground(background(disable(enable(Style_new, e), d), bg), fg) :
        fg \in {None, Some(Color256(1))}, bg \in {None, Some(Color256(42))},
        e \in {EMPTY, SetOf({"Bold"})},
        d \in {EMPTY, SetOf({"Strike", "Underline2", "Frame", "Encircle", "Overline"})}}
    \cup {disable(Style_new, SetOf({"Bold"}))}

\* Style strings a client parses, and what from_str returns for each.
ParseArgs ==
    {Str("bold red on color(42)"), Str("not bold #000aff bold"), Str(" NONE "),
     Str("b default not B"), Str("on bold"), Str("")}

ParseResults == [s \in ParseArgs |-> Style_from_str(s)]

\* The modifier sets of the ratatui styles a client converts.
ModifierArgs ==
    {{}, {"BOLD"},
     {"DIM", "ITALIC", "UNDERLINED", "SLOW_BLINK", "RAPID_BLINK", "REVERSED", "HIDDEN"}}

(***************************************************************************)
(* A client building, patching, displaying and parsing a Style             *)
(***************************************************************************)

PatchIdle == self_ = Null /\ other = Null /\ patched = Null
ParseIdle ==
    /\ input = Null /\ words = <<>> /\ acc = Null /\ token = Null /\ outcome = Null
    /\ pc = "idle"

Init ==
    /\ style = Style_new
    /\ text = Null
    /\ parsed = Null
    /\ PatchIdle
    /\ ParseIdle
    /\ attrset = Null /\ setiter = Null /\ yielded = <<>> /\ color = Null

\* The variables of patch and of from_str, which the operations on the held
\* Style leave alone.
calls ==
    <<self_, other, patched, input, words, acc, token, outcome, pc, attrset, setiter, yielded, color>>

\* The result of each operation replaces the held Style; what was displayed
\* and parsed back belongs to the Style before.
Foreground ==
    \E fg \in FgArgs :
        /\ style' = foreground(style, fg)
        /\ text' = Null /\ parsed' = Null
        /\ UNCHANGED calls

Background ==
    \E bg \in BgArgs :
        /\ style' = background(style, bg)
        /\ text' = Null /\ parsed' = Null
        /\ UNCHANGED calls

EnabledAttributes ==
    \E attrs \in AttrArgs :
        /\ style' = enabled_attributes(style, attrs)
        /\ text' = Null /\ parsed' = Null
        /\ UNCHANGED calls

DisabledAttributes ==
    \E attrs \in AttrArgs :
        /\ style' = disabled_attributes(style, attrs)
        /\ text' = Null /\ parsed' = Null
        /\ UNCHANGED calls

Enable ==
    \E attrs \in AttrArgs :
        /\ style' = enable(style, attrs)
        /\ text' = Null /\ parsed' = Null
        /\ UNCHANGED calls

Disable ==
    \E attrs \in AttrArgs :
        /\ style' = disable(style, attrs)
        /\ text' = Null /\ parsed' = Null
        /\ UNCHANGED calls

Patch ==
    \E o \in PatchArgs :
        /\ style' = patch(style, o)
        /\ text' = Null /\ parsed' = Null
        /\ UNCHANGED calls

\* s.parse::<Style>() of a client's string; the client keeps the Style of Ok.
Parse ==
    \E s \in ParseArgs :
        /\ style' = (IF ParseResults[s].tag = "Ok" THEN ParseResults[s].val ELSE style)
        /\ text' = Null /\ parsed' = Null
        /\ UNCHANGED calls

FromRatatui ==
    \E add \in ModifierArgs, rem \in ModifierArgs :
        /\ style' = Style_from_ratatui([fg |-> None, bg |-> None,
                                        add_modifier |-> add, sub_modifier |-> rem])
        /\ text' = Null /\ parsed' = Null
        /\ UNCHANGED calls

\* style.to_string()
to_string ==
    /\ text = Null
    /\ text' = Some(Style_fmt(style))
    /\ UNCHANGED <<attrset, setiter, yielded, color, style, parsed, self_, other, patched, input, words, acc, token, outcome, pc>>

\* The displayed string parsed back.
FromStr ==
    /\ text # Null
    /\ parsed = Null
    /\ parsed' = Style_from_str(text.val)
    /\ UNCHANGED <<attrset, setiter, yielded, color, style, text, self_, other, patched, input, words, acc, token, outcome, pc>>

NextCore ==
    \/ Foreground
    \/ Background
    \/ EnabledAttributes
    \/ DisabledAttributes
    \/ Enable
    \/ Disable
    \/ Patch
    \/ Parse
    \/ to_string
    \/ FromStr

\* The core operations alone.
SpecCore == Init /\ [][NextCore]_vars

Next == NextCore \/ FromRatatui

\* The core operations and the conversion from a ratatui style.
Spec == Init /\ [][Next]_vars

(***************************************************************************)
(* patch applied to two styles                                             *)
(***************************************************************************)

PatchSets == {EMPTY, ALL, SetOf({"Bold"}), SetOf({"Dim", "Overline"})}

PatchStyles ==
    {Style(fg, bg, e, d) :
        fg \in {None, Some(Color_Default), Some(Color256(1)), Some(Color256(4))},
        bg \in {None, Some(Color_Default)},
        e \in PatchSets, d \in PatchSets}

InitPatch ==
    /\ self_ \in PatchStyles
    /\ other \in PatchStyles
    /\ patched = Null
    /\ style = Null /\ text = Null /\ parsed = Null
    /\ ParseIdle
    /\ attrset = Null /\ setiter = Null /\ yielded = <<>> /\ color = Null

CallPatch ==
    /\ patched = Null
    /\ patched' = patch(self_, other)
    /\ UNCHANGED <<attrset, setiter, yielded, color, style, text, parsed, self_, other, input, words, acc, token, outcome, pc>>

SpecPatch == InitPatch /\ [][CallPatch]_vars

(***************************************************************************)
(* Style::from_str, one loop iteration at a time                           *)
(***************************************************************************)

MaxTokens == 3

VOCABULARY ==
    {Str("on"), Str("On"), Str("not"), Str("NOT"), Str("bold"), Str("italic"), Str("blue"),
     Str("default"), Str("Foo"), Str("rgb(1,"), Str("none")}

RECURSIVE TokenSeqs(_)
TokenSeqs(n) ==
    IF n = 0 THEN {<<>>}
    ELSE TokenSeqs(n - 1)
         \cup {Append(ts, t) : ts \in {ts \in TokenSeqs(n - 1) : Len(ts) = n - 1},
                                t \in VOCABULARY}

RECURSIVE Join(_, _)
\* The tokens with sep between each two.
Join(ts, sep) ==
    IF ts = <<>> THEN <<>>
    ELSE IF Len(ts) = 1 THEN ts[1]
    ELSE ts[1] \o sep \o Join(Tail(ts), sep)

\* A style string of the tokens: single spaces, or padded with more
\* whitespace.
Layout(ts, wide) ==
    IF wide THEN Str(" ") \o Join(ts, Str("  ")) \o Str(" ") ELSE Join(ts, Str(" "))

Inputs == {Layout(ts, wide) : ts \in TokenSeqs(MaxTokens), wide \in BOOLEAN}

InitParse ==
    /\ input \in Inputs
    /\ words = <<>>
    /\ acc = Null
    /\ token = Null
    /\ outcome = Null
    /\ pc = "enter"
    /\ style = Null /\ text = Null /\ parsed = Null
    /\ PatchIdle
    /\ attrset = Null /\ setiter = Null /\ yielded = <<>> /\ color = Null

\* from_str up to the loop: the early return, or the split into words.
Enter ==
    /\ pc = "enter"
    /\ acc' = Style_new
    /\ IF IsNoneString(input)
       THEN outcome' = Ok(Style_new) /\ words' = words /\ pc' = "returned"
       ELSE outcome' = outcome /\ words' = split_whitespace(input) /\ pc' = "loop"
    /\ UNCHANGED <<attrset, setiter, yielded, color, style, text, parsed, self_, other, patched, input, token>>

\* One iteration of the while loop.
Iterate ==
    /\ pc = "loop"
    /\ words # <<>>
    /\ LET it == LoopBody(acc, words)
       IN  /\ token' = Some(Head(words))
           /\ acc' = it.style
           /\ words' = it.words
           /\ outcome' = IF it.ret # None THEN it.ret.val ELSE outcome
           /\ pc' = IF it.ret # None THEN "returned" ELSE "loop"
    /\ UNCHANGED <<attrset, setiter, yielded, color, style, text, parsed, self_, other, patched, input>>

\* The loop ends: Ok(style).
Return ==
    /\ pc = "loop"
    /\ words = <<>>
    /\ outcome' = Ok(acc)
    /\ pc' = "returned"
    /\ UNCHANGED <<attrset, setiter, yielded, color, style, text, parsed, self_, other, patched, input, words, acc, token>>

NextParse == Enter \/ Iterate \/ Return

SpecParse == InitParse /\ [][NextParse]_vars


(***************************************************************************)
(* The value types on their own: the from_str of Attribute, Color256,      *)
(* RgbColor, Color and Style called on a string, Color256's Display, the   *)
(* operators of AttributeSet, and AttributeSetIter                         *)
(***************************************************************************)

\* The strings parsed.  Words for the from_str of Attribute and of the
\* colors, every key of BY_NAME, style strings, and two words with
\* characters before, between and after them: ASCII whitespace, the
\* White_Space characters U+00A0 and U+3000, and U+200B, which is none.
StrArgs ==
    LET NBSP == <<"U+00A0">>
        IDEOGRAPHIC_SPACE == <<"U+3000">>
        ZWSP == <<"U+200B">>
        WordArgs ==
            {Str(w) : w \in
                {"", "bold", "BOLD", "Bold", "b", "B", "d", "i", "u", "r", "c", "s", "uu", "UU", "Uu",
                 "dim", "italic", "underline", "blink", "blink2", "BLINK2", "reverse", "conceal",
                 "strike", "underline2", "frame", "encircle", "overline", "Overline", "FRAME",
                 "D", "I", "U", "R", "C", "S", "Blink", "bl", "under", "u2", "ii",
                 "bo", "boldx", "blink3", "bb", "x", "f", "e", "o", " bold", "bold ", "on", "not", "none",
                 "ON", "On", "NOT", "Not", "NONE", "None",
                 "red", "RED", "Red", "grey0", "GRAY0", "Grey62", "dark_red", "purple", "readd",
                 "default", "DEFAULT", "Default",
                 "color(5)", "COLOR(255)", "Color(007)", "color(0)", "color(19)", "color(256)",
                 "color(+5)", "color(-1)", "color()", "color(5", "color5)", "color(5))", "color( 5)",
                 "color(5 )", "color(0x5)", "color(1.0)", "color(red)", "colour(5)", "5",
                 "#0a0aff", "#0A0AFF", "#000aFf", "#abc", "#gggggg", "#0a0aff0", "0a0aff", "#",
                 "rgb(1,2,3)", "RGB(1,2,3)", "Rgb(0,10,255)", "rgb(1, 2, 3)", "rgb(1,2)",
                 "rgb(1,2,3,4)", "rgb(256,0,0)", "rgb(1,,3)", "rgb(+1,2,3)", "rgb(1,2,3", "rgb()",
                 "rgb(01,002,0003)",
                 "# 0a0aff", "#0a0 ff", "#0a0aff ", " #0a0aff", "#0a0af", "#+a+b+c", "#-a0a0f",
                 "#00000g", "#0x0a0a", "##0a0aff", "#FFFFFF", "#000000", "#7fFf00", "0a0aff#",
                 "rgb(0x7f,0xff,0x00)", "rgb(78,126,70)", "rgb(78, 126, 70)", "rgb( 1,2,3)",
                 "rgb(1,2,3 )", "rgb(1 ,2,3)", "rgb(1,2,3,)", "rgb(,1,2,3)", "rgb(255,255,255)",
                 "rgb(0,0,0)", "rgb(-1,2,3)", "rgb(1.0,2,3)", " rgb(1,2,3)", "rgb(1,2,3) ",
                 "rgb(1;2;3)", "rgb (1,2,3)", "rgb(1,2,256)", "rgb(1,2,)", "rgb(a,b,c)",
                 "rgb(1,2,3))", "rgb(1,2,+3)", "rgb1,2,3)", "rg(1,2,3)", "rgba(1,2,3)"}}
            \cup {p[1] : p \in BY_NAME_PAIRS}
            \cup {arm[1] : arm \in ATTRIBUTE_ARMS}
            \cup {Str("bold") \o NBSP, Str("#0a0a") \o <<"U+00F6">>, Str("re") \o ZWSP \o Str("d"),
                  Str("#") \o <<"U+00F6", "U+00F6", "U+00F6">>, Str("#0a0af") \o <<"U+00F6">>,
                  Str("#0a") \o IDEOGRAPHIC_SPACE \o Str("f"),
                  Str("rgb") \o <<"U+00F6">> \o Str("1,2,3)"),
                  Str("rg") \o <<"U+00F6">> \o Str("(1,2,3)"),
                  Str("rgb(1,2,3") \o <<"U+00F6">> \o Str(")"),
                  Str("rgb(1,") \o NBSP \o Str("2,3)")}
        StyleArgs ==
            {Str(w) : w \in
                {" ", "  none  ", " NONE ", "None", "nOnE", "\tnone\n", "none red", "red none",
                 "none none", "on none", "not none", "nonee",
                 "bold red on blue", "BOLD RED ON BLUE", "Bold Red On Blue", "not bold", "NOT BOLD",
                 "Not Uu", "italic on #0A0aFf", "Bold Rgb(1,2,3) On Color(7)", "grey0 on Dark_Red", "rgb(1,2,3) on color(7)", "RGB(1,2,3) ON COLOR(7)",
                 "on Default", "blue on", "On Bold", "bold Not", "not not bold", "Foo bold",
                 "bold fOO", "bright blue", "rgb(1, 2, 3)", "not blue", "on on red"}}
        SPACERS == {<<>>, Str(" "), Str("\t"), Str(" \n "), NBSP, IDEOGRAPHIC_SPACE, ZWSP}
        SpacedArgs ==
            {a \o w1 \o b \o w2 \o c :
                w1 \in {Str("bold"), Str("on"), Str("none")},
                w2 \in {Str("red"), Str("Italic")},
                a \in {<<>>, Str(" "), NBSP, IDEOGRAPHIC_SPACE, ZWSP},
                b \in SPACERS \ {<<>>},
                c \in {<<>>, Str("\r\n"), IDEOGRAPHIC_SPACE}}
            \cup {a \o Str("none") \o c : a \in SPACERS, c \in SPACERS}
    IN  WordArgs \cup StyleArgs \cup SpacedArgs

\* The state before the first call: a string to parse, a Color256 to
\* format, an AttributeSet to work on, or an AttributeSetIter just made by
\* into_iter.
InitValues ==
    /\ words = <<>> /\ acc = Null /\ token = Null
    /\ style = Null /\ text = Null /\ parsed = Null
    /\ PatchIdle
    /\ outcome = Null
    /\ \/ /\ input \in StrArgs
          /\ pc = "call"
          /\ attrset = Null /\ setiter = Null /\ yielded = <<>> /\ color = Null
       \/ /\ color \in {Color_Default} \cup {Color256(i) : i \in 0..U8_MAX}
                       \cup {RgbColor(r, g, b) : r, g, b \in {0, 1, 10, 15, 16, 127, 128, U8_MAX}}
          /\ pc = "color"
          /\ input = Null
          /\ attrset = Null /\ setiter = Null /\ yielded = <<>>
       \/ /\ attrset \in {EMPTY, ALL, AttributeSet_new} \cup {AttributeSet_from(a) : a \in Attribute}
          /\ pc = "set"
          /\ input = Null
          /\ setiter = Null /\ yielded = <<>> /\ color = Null
       \/ /\ \E S \in {{}, Attribute, {"Bold"}, {"Overline"}, {"Bold", "Overline"},
                        {"Bold", "Reverse", "Strike", "Frame"}, {"Dim", "Italic", "Underline"},
                        {"Blink2", "Encircle"}, Attribute \ {"Blink", "Conceal"}} :
                setiter = [inner |-> [idx |-> 0, back_idx |-> 0], set |-> SetOf(S)]
          /\ yielded = [front |-> <<>>, back |-> <<>>, none |-> FALSE]
          /\ pc = "iter"
          /\ input = Null
          /\ attrset = Null /\ color = Null

\* One from_str call on the input; pc tells whose.
ParseAttribute ==
    /\ pc = "call"
    /\ outcome' = Attribute_from_str(input)
    /\ pc' = "Attribute"
    /\ UNCHANGED <<attrset, setiter, yielded, color, style, text, parsed, self_, other, patched,
                   input, words, acc, token>>

ParseColor256 ==
    /\ pc = "call"
    /\ outcome' = Color256_from_str(input)
    /\ pc' = "Color256"
    /\ UNCHANGED <<attrset, setiter, yielded, color, style, text, parsed, self_, other, patched,
                   input, words, acc, token>>

ParseRgbColor ==
    /\ pc = "call"
    /\ outcome' = RgbColor_from_str(input)
    /\ pc' = "RgbColor"
    /\ UNCHANGED <<attrset, setiter, yielded, color, style, text, parsed, self_, other, patched,
                   input, words, acc, token>>

ParseColor ==
    /\ pc = "call"
    /\ outcome' = Color_from_str(input)
    /\ pc' = "Color"
    /\ UNCHANGED <<attrset, setiter, yielded, color, style, text, parsed, self_, other, patched,
                   input, words, acc, token>>

ParseStyle ==
    /\ pc = "call"
    /\ outcome' = Style_from_str(input)
    /\ pc' = "Style"
    /\ UNCHANGED <<attrset, setiter, yielded, color, style, text, parsed, self_, other, patched,
                   input, words, acc, token>>

\* impl Display for Color256, through to_string; the string is parsed next.
Color256_to_string ==
    /\ pc = "color"
    /\ color.tag = "Color256"
    /\ input' = Color256_fmt(color.index)
    /\ pc' = "call"
    /\ UNCHANGED <<attrset, setiter, yielded, color, style, text, parsed, self_, other, patched,
                   words, acc, token, outcome>>

\* The operators of AttributeSet, each in its two forms: a | rhs and
\* a |= rhs compute the same u16.  rhs is an Into<AttributeSet>: a set or
\* a single Attribute.
BitAnd ==
    /\ pc = "set"
    /\ \E rhs \in AttrArgs : attrset' = bitand(attrset, rhs)
    /\ UNCHANGED <<setiter, yielded, color, style, text, parsed, self_, other, patched,
                   input, words, acc, token, outcome, pc>>

BitOr ==
    /\ pc = "set"
    /\ \E rhs \in AttrArgs : attrset' = bitor(attrset, rhs)
    /\ UNCHANGED <<setiter, yielded, color, style, text, parsed, self_, other, patched,
                   input, words, acc, token, outcome, pc>>

BitXor ==
    /\ pc = "set"
    /\ \E rhs \in AttrArgs : attrset' = bitxor(attrset, rhs)
    /\ UNCHANGED <<setiter, yielded, color, style, text, parsed, self_, other, patched,
                   input, words, acc, token, outcome, pc>>

Sub ==
    /\ pc = "set"
    /\ \E rhs \in AttrArgs : attrset' = sub(attrset, rhs)
    /\ UNCHANGED <<setiter, yielded, color, style, text, parsed, self_, other, patched,
                   input, words, acc, token, outcome, pc>>

Not ==
    /\ pc = "set"
    /\ attrset' = not(attrset)
    /\ UNCHANGED <<setiter, yielded, color, style, text, parsed, self_, other, patched,
                   input, words, acc, token, outcome, pc>>

\* ratatui::style::Modifier::from(set): the loop over the set's attributes
\* ORs one flag per attribute, and four attributes add none.
IntoModifier ==
    /\ pc = "set"
    /\ LET arm(attr) ==
               CASE attr = "Bold" -> {"BOLD"}
                 [] attr = "Dim" -> {"DIM"}
                 [] attr = "Italic" -> {"ITALIC"}
                 [] attr = "Underline" -> {"UNDERLINED"}
                 [] attr = "Blink" -> {"SLOW_BLINK"}
                 [] attr = "Blink2" -> {"RAPID_BLINK"}
                 [] attr = "Reverse" -> {"REVERSED"}
                 [] attr = "Conceal" -> {"HIDDEN"}
                 [] attr = "Strike" -> {"CROSSED_OUT"}
                 [] attr = "Underline2" -> {}
                 [] attr = "Frame" -> {}
                 [] attr = "Encircle" -> {}
                 [] attr = "Overline" -> {}
       IN  outcome' = [tag |-> "Modifier",
                       bits |-> UNION {arm(attr) : attr \in Members(attrset)}]
    /\ pc' = "Modifier"
    /\ UNCHANGED <<attrset, setiter, yielded, color, style, text, parsed, self_, other, patched,
                   input, words, acc, token>>

\* AttributeSet::from(modifier), of the Modifier just made.
FromModifier ==
    /\ pc = "Modifier"
    /\ outcome' = [tag |-> "AttributeSet", bits |-> AttributeSet_from_modifier(outcome.bits)]
    /\ pc' = "AttributeSet"
    /\ UNCHANGED <<attrset, setiter, yielded, color, style, text, parsed, self_, other, patched,
                   input, words, acc, token>>

\* AttributeSet::from_iter makes a new set.
FromIterator ==
    /\ pc = "set"
    /\ \E attrs \in {<<>>, <<"Bold">>, <<"Bold", "Bold", "Overline">>, <<"Reverse", "Italic">>,
                      Attribute_iter} :
           attrset' = from_iter(attrs)
    /\ UNCHANGED <<setiter, yielded, color, style, text, parsed, self_, other, patched,
                   input, words, acc, token, outcome, pc>>

\* for attr in iter { *self |= attr; }
Extend ==
    /\ pc = "set"
    /\ \E attrs \in {<<>>, <<"Bold">>, <<"Bold", "Bold", "Overline">>, <<"Reverse", "Italic">>,
                      Attribute_iter} :
           LET RECURSIVE for(_, _)
               for(self, k) ==
                   IF k > Len(attrs) THEN self
                   ELSE for(bitor(self, AttributeSet_from(attrs[k])), k + 1)
           IN  attrset' = for(attrset, 1)
    /\ UNCHANGED <<setiter, yielded, color, style, text, parsed, self_, other, patched,
                   input, words, acc, token, outcome, pc>>

\* AttributeSetIter: inner is the AttributeIter that strum's EnumIter derives
\* for Attribute, which counts the items taken from the front (idx) and from
\* the back (back_idx) and ends when the two meet.  yielded keeps what the
\* calls returned: the attributes from each end, and whether a None.

\* self.inner.by_ref().find(|&attr| self.set.contains(attr))
next ==
    /\ pc = "iter"
    /\ LET set == setiter.set
           AttributeIter_next(inner) ==
               IF inner.idx + 1 + inner.back_idx > COUNT
               THEN [inner |-> [inner EXCEPT !.idx = COUNT], item |-> None]
               ELSE [inner |-> [inner EXCEPT !.idx = inner.idx + 1],
                     item |-> Some(Attribute_iter[inner.idx + 1])]
           RECURSIVE find(_)
           find(inner) ==
               LET r == AttributeIter_next(inner)
               IN  IF r.item = None \/ contains(set, r.item.val) THEN r ELSE find(r.inner)
           found == find(setiter.inner)
       IN  /\ setiter' = [setiter EXCEPT !.inner = found.inner]
           /\ outcome' = found.item
           /\ yielded' = IF found.item = None THEN [yielded EXCEPT !.none = TRUE]
                         ELSE [yielded EXCEPT !.front = Append(@, found.item.val)]
    /\ UNCHANGED <<attrset, color, style, text, parsed, self_, other, patched,
                   input, words, acc, token, pc>>

\* next_back whose inner iterator does not look at idx.
next_back_past_front ==
    /\ pc = "iter"
    /\ LET set == setiter.set
           AttributeIter_next_back(inner) ==
               IF inner.back_idx + 1 > COUNT
               THEN [inner |-> [inner EXCEPT !.back_idx = COUNT], item |-> None]
               ELSE [inner |-> [inner EXCEPT !.back_idx = inner.back_idx + 1],
                     item |-> Some(Attribute_iter[COUNT - inner.back_idx])]
           RECURSIVE rfind(_)
           rfind(inner) ==
               LET r == AttributeIter_next_back(inner)
               IN  IF r.item = None \/ contains(set, r.item.val) THEN r ELSE rfind(r.inner)
           found == rfind(setiter.inner)
       IN  /\ setiter' = [setiter EXCEPT !.inner = found.inner]
           /\ outcome' = found.item
           /\ yielded' = IF found.item = None THEN [yielded EXCEPT !.none = TRUE]
                         ELSE [yielded EXCEPT !.back = Append(@, found.item.val)]
    /\ UNCHANGED <<attrset, color, style, text, parsed, self_, other, patched,
                   input, words, acc, token, pc>>

\* self.inner.by_ref().rfind(|&attr| self.set.contains(attr))
next_back ==
    /\ pc = "iter"
    /\ LET set == setiter.set
           AttributeIter_next_back(inner) ==
               IF inner.idx + inner.back_idx + 1 > COUNT
               THEN [inner |-> [inner EXCEPT !.back_idx = COUNT], item |-> None]
               ELSE [inner |-> [inner EXCEPT !.back_idx = inner.back_idx + 1],
                     item |-> Some(Attribute_iter[COUNT - inner.back_idx])]
           RECURSIVE rfind(_)
           rfind(inner) ==
               LET r == AttributeIter_next_back(inner)
               IN  IF r.item = None \/ contains(set, r.item.val) THEN r ELSE rfind(r.inner)
           found == rfind(setiter.inner)
       IN  /\ setiter' = [setiter EXCEPT !.inner = found.inner]
           /\ outcome' = found.item
           /\ yielded' = IF found.item = None THEN [yielded EXCEPT !.none = TRUE]
                         ELSE [yielded EXCEPT !.back = Append(@, found.item.val)]
    /\ UNCHANGED <<attrset, color, style, text, parsed, self_, other, patched,
                   input, words, acc, token, pc>>

\* impl Display for RgbColor, through to_string.
RgbColor_to_string ==
    /\ pc = "color"
    /\ color.tag = "Rgb"
    /\ input' = RgbColor_fmt(color)
    /\ pc' = "call"
    /\ UNCHANGED <<attrset, setiter, yielded, color, style, text, parsed, self_, other, patched,
                   words, acc, token, outcome>>

\* impl Display for Color, through to_string, of a Color of any variant.
Color_to_string ==
    /\ pc = "color"
    /\ input' = Color_fmt(color)
    /\ pc' = "call"
    /\ UNCHANGED <<attrset, setiter, yielded, color, style, text, parsed, self_, other, patched,
                   words, acc, token, outcome>>

NextValues ==
    \/ ParseAttribute \/ ParseColor256 \/ ParseRgbColor \/ ParseColor \/ ParseStyle
    \/ Color256_to_string \/ RgbColor_to_string \/ Color_to_string
    \/ BitAnd \/ BitOr \/ BitXor \/ Sub \/ Not \/ FromIterator \/ Extend
    \/ IntoModifier \/ FromModifier
    \/ next \/ next_back

SpecValues == InitValues /\ [][NextValues]_vars

\* ---------------------------------------------------------------------
\* Properties of Style.

\* The members of a Style's two attribute sets.
Enabled(s) == Members(s.enabled_attributes)
Disabled(s) == Members(s.disabled_attributes)

Disjoint(s) == Enabled(s) \cap Disabled(s) = {}

\* C1: every Style built from Style::new() by foreground, background,
\* enabled_attributes, disabled_attributes, enable, disable, patch with
\* another such Style, or a successful parse has no attribute in both its
\* enabled and its disabled set.
C1_Disjoint ==
    /\ Disjoint(style)
    /\ (parsed # Null /\ parsed.tag = "Ok") => Disjoint(parsed.val)

\* A Style that went through the builders and carries members in both sets.
C1_BothSetsUsed ==
    /\ "Bold" \in Disabled(style)
    /\ "Italic" \in Enabled(style)
    /\ style.foreground # None

\* C2: a Style whose sets are disjoint, with any foreground and background,
\* parses back from its own to_string() to a Style equal to it.
C2_RoundTrip ==
    (parsed # Null /\ Disjoint(style)) => parsed = Ok(style)

\* A round trip of a Style with an RgbColor foreground, a background and
\* members in both sets.
C2_FullStyleRoundTrip ==
    /\ parsed # Null
    /\ Disjoint(style)
    /\ style.foreground = Some(RgbColor(0, 10, 255))
    /\ style.background # None
    /\ Enabled(style) # {}
    /\ Disabled(style) # {}

\* The pieces Display is to emit for a Style, in order.
AttributePiece(s, attr) ==
    IF is_enabled(s, attr) THEN <<as_str(attr)>>
    ELSE IF is_disabled(s, attr) THEN <<Str("not ") \o as_str(attr)>>
    ELSE <<>>

DisplayPieces(s) ==
    Concat([i \in DOMAIN Attribute_iter |-> AttributePiece(s, Attribute_iter[i])])
    \o (IF s.foreground # None THEN <<Color_fmt(s.foreground.val)>> ELSE <<>>)
    \o (IF s.background # None THEN <<Str("on ") \o Color_fmt(s.background.val)>> ELSE <<>>)

\* C3: Display emits the attribute pieces in declaration order, then the
\* foreground, then `on ` and the background, separated by single spaces;
\* it emits exactly `none` when there is no piece, and that is exactly when
\* is_empty() is true.
C3_Display ==
    text # Null =>
        /\ text.val = (IF DisplayPieces(style) = <<>> THEN Str("none")
                       ELSE Join(DisplayPieces(style), Str(" ")))
        /\ (DisplayPieces(style) = <<>>) <=> Style_is_empty(style)

\* ---------------------------------------------------------------------
\* Properties of Style::from_str, over the tokens of the input.

IsOn(t) == eq_ignore_ascii_case(t, Str("on"))
IsNot(t) == eq_ignore_ascii_case(t, Str("not"))
IsKeyword(t) == IsOn(t) \/ IsNot(t)
IsColor(t) == Color_from_str(t).tag = "Ok"
IsAttribute(t) == Attribute_from_str(t).tag = "Ok"

\* The token at position i stands on its own, after no keyword.
BareAt(ts, i) == ~IsKeyword(ts[i]) /\ (i = 1 \/ ~IsKeyword(ts[i - 1]))

BareColors(ts) == {i \in DOMAIN ts : BareAt(ts, i) /\ IsColor(ts[i])}
OnColors(ts) == {i \in DOMAIN ts : i > 1 /\ IsOn(ts[i - 1]) /\ IsColor(ts[i])}
BareMentions(ts, attr) ==
    {i \in DOMAIN ts : BareAt(ts, i) /\ ~IsColor(ts[i]) /\ Attribute_from_str(ts[i]) = Ok(attr)}
NotMentions(ts, attr) ==
    {i \in DOMAIN ts : i > 1 /\ IsNot(ts[i - 1]) /\ Attribute_from_str(ts[i]) = Ok(attr)}

Last(S) == CHOOSE m \in S : \A x \in S : x <= m

\* The Style in which the last mention of each setting decides.
LastWins(ts) ==
    LET mentions(attr) == BareMentions(ts, attr) \cup NotMentions(ts, attr)
    IN  Style(IF BareColors(ts) = {} THEN None
              ELSE Some(Color_from_str(ts[Last(BareColors(ts))]).val),
              IF OnColors(ts) = {} THEN None
              ELSE Some(Color_from_str(ts[Last(OnColors(ts))]).val),
              SetOf({attr \in Attribute : /\ mentions(attr) # {}
                                          /\ Last(mentions(attr)) \in BareMentions(ts, attr)}),
              SetOf({attr \in Attribute : /\ mentions(attr) # {}
                                          /\ Last(mentions(attr)) \in NotMentions(ts, attr)}))

RECURSIVE GroupsOf(_)
\* The token groups: a keyword with the token after it, or a token alone.
GroupsOf(ts) ==
    IF ts = <<>> THEN <<>>
    ELSE IF IsKeyword(ts[1]) /\ Len(ts) >= 2
    THEN <<SubSeq(ts, 1, 2)>> \o GroupsOf(SubSeq(ts, 3, Len(ts)))
    ELSE <<<<ts[1]>>>> \o GroupsOf(Tail(ts))

GroupKind(g) ==
    IF Len(g) = 2 /\ IsOn(g[1]) /\ IsColor(g[2]) THEN "on color"
    ELSE IF Len(g) = 2 /\ IsNot(g[1]) /\ IsAttribute(g[2]) THEN "not attribute"
    ELSE IF Len(g) = 1 /\ ~IsKeyword(g[1]) /\ IsColor(g[1]) THEN "color"
    ELSE IF Len(g) = 1 /\ ~IsKeyword(g[1]) /\ IsAttribute(g[1]) THEN "attribute"
    ELSE "other"

GroupAttribute(g) == Attribute_from_str(g[Len(g)]).val

\* Each attribute in at most one group, at most one foreground and at most
\* one background.
EachAtMostOnce(gs) ==
    /\ \A i \in DOMAIN gs : GroupKind(gs[i]) # "other"
    /\ \A i, j \in DOMAIN gs :
           i # j =>
               /\ GroupKind(gs[i]) = "color" => GroupKind(gs[j]) # "color"
               /\ GroupKind(gs[i]) = "on color" => GroupKind(gs[j]) # "on color"
               /\ ( /\ GroupKind(gs[i]) \in {"attribute", "not attribute"}
                    /\ GroupKind(gs[j]) \in {"attribute", "not attribute"} )
                  => GroupAttribute(gs[i]) # GroupAttribute(gs[j])

\* The style string of the groups taken in the order p.
Permuted(gs, p) == Join(Concat([i \in DOMAIN gs |-> gs[p[i]]]), Str(" "))

\* C5: when the groups of a style string mention each attribute at most
\* once and hold at most one foreground and one background, every
\* permutation of the groups parses to the same Style and formats to the
\* same string.
C5_AnyOrder ==
    LET gs == GroupsOf(split_whitespace(input))
    IN  (pc = "returned" /\ EachAtMostOnce(gs)) =>
            \A p \in Permutations(DOMAIN gs) :
                /\ Style_from_str(Permuted(gs, p)) = outcome
                /\ outcome.tag = "Ok"
                /\ Style_fmt(Style_from_str(Permuted(gs, p)).val) = Style_fmt(outcome.val)

\* A finished parse of two or more groups, one of them a keyword group.
C5_SeveralGroups ==
    LET gs == GroupsOf(split_whitespace(input))
    IN  /\ pc = "returned"
        /\ EachAtMostOnce(gs)
        /\ Len(gs) >= 2
        /\ \E i \in DOMAIN gs : Len(gs[i]) = 2

\* C9: when the loop reaches `on`, in any letter case, and the next token is
\* absent or no Color, the parse fails with MissingBackground; when it
\* reaches `not` and the next token is absent or no Attribute, it fails with
\* MissingAttribute; no parse succeeds past a dangling `on` or `not`.
C9_Dangling ==
    [][ /\ ( /\ pc = "loop" /\ words # <<>> /\ IsOn(Head(words))
             /\ (Len(words) = 1 \/ ~IsColor(words[2])) )
           => (pc' = "returned" /\ outcome' = Err(MissingBackground))
        /\ ( /\ pc = "loop" /\ words # <<>> /\ IsNot(Head(words))
             /\ (Len(words) = 1 \/ ~IsAttribute(words[2])) )
           => (pc' = "returned" /\ outcome' = Err(MissingAttribute))
        /\ (pc' = "returned" /\ outcome'.tag = "Ok") =>
               LET ts == split_whitespace(input)
               IN  \A i \in DOMAIN ts :
                       /\ IsOn(ts[i]) => (i < Len(ts) /\ IsColor(ts[i + 1]))
                       /\ IsNot(ts[i]) => (i < Len(ts) /\ IsAttribute(ts[i + 1]))
      ]_vars

\* A parse that failed with MissingBackground at an `On` ending the input.
C9_DanglingOn ==
    LET ts == split_whitespace(input)
    IN  /\ pc = "returned"
        /\ outcome = Err(MissingBackground)
        /\ Len(ts) >= 2
        /\ token = Some(Str("On"))
        /\ ts[Len(ts)] = Str("On")
        /\ ~IsKeyword(ts[Len(ts) - 1])

\* The loop would take its final else for the token.
Unrecognised(t) == ~IsKeyword(t) /\ ~IsColor(t) /\ ~IsAttribute(t)

\* C10: when the loop reaches a token that is not `on`, not `not`, no Color
\* and no Attribute, the parse fails with Token carrying that token as
\* written, and returns no Style.
C10_Token ==
    [][ (pc = "loop" /\ words # <<>> /\ Unrecognised(Head(words)))
        => /\ pc' = "returned"
           /\ outcome' = Err(Token(Head(words)))
           /\ outcome'.tag # "Ok"
      ]_vars

\* A parse that failed with Token("Foo") after a token it accepted.
C10_TokenAfterOthers ==
    /\ pc = "returned"
    /\ outcome = Err(Token(Str("Foo")))
    /\ Len(split_whitespace(input)) >= 2
    /\ ~Unrecognised(split_whitespace(input)[1])

\* ---------------------------------------------------------------------
\* Properties of Style::patch.

\* C6: a.patch(b) has enabled = (a.enabled - b.disabled) | b.enabled and
\* disabled = (a.disabled - b.enabled) | b.disabled; an attribute b enables
\* or disables has b's state, any other keeps a's.
C6_PatchAttributes ==
    patched # Null =>
        LET a_en == Enabled(self_)
            a_dis == Disabled(self_)
            b_en == Enabled(other)
            b_dis == Disabled(other)
            en == Enabled(patched)
            dis == Disabled(patched)
        IN  /\ en = (a_en \ b_dis) \cup b_en
            /\ dis = (a_dis \ b_en) \cup b_dis
            /\ \A attr \in b_en \cup b_dis :
                   (attr \in en <=> attr \in b_en) /\ (attr \in dis <=> attr \in b_dis)
            /\ \A attr \in Attribute \ (b_en \cup b_dis) :
                   (attr \in en <=> attr \in a_en) /\ (attr \in dis <=> attr \in a_dis)

\* A patch in which b disables what a enables and a's other attributes stay.
C6_OverrideAndKeep ==
    /\ patched # Null
    /\ Enabled(self_) = Attribute
    /\ Disabled(other) = {"Bold"}
    /\ Enabled(other) = {}
    /\ Disabled(patched) = {"Bold"}

C8_OtherApplied ==
    patched # Null =>
        /\ patched.foreground =
               (IF other.foreground # None THEN other.foreground ELSE self_.foreground)
        /\ patched.background =
               (IF other.background # None THEN other.background ELSE self_.background)
        /\ LET b_en == Enabled(other)
               b_dis == Disabled(other)
               en == Enabled(patched)
               dis == Disabled(patched)
           IN  \A attr \in b_en \cup b_dis :
                   (attr \in en <=> attr \in b_en) /\ (attr \in dis <=> attr \in b_dis)

\* ---------------------------------------------------------------------
\* Properties of the parse errors.

\* The characters part stand somewhere in s, next to one another.
IsSubstring(part, s) ==
    \E i \in 1..(Len(s) + 1) :
        i + Len(part) - 1 <= Len(s) /\ SubSeq(s, i, i + Len(part) - 1) = part

\* C11 as stated: every parse error, ParseAttributeError, ParseColorError
\* and each variant of ParseStyleError, carries the offending substring of
\* the input.
C11_EveryErrorCarries ==
    outcome.tag = "Err" =>
        /\ "text" \in DOMAIN outcome.err
        /\ IsSubstring(outcome.err.text, input)

\* C11, amended: ParseAttributeError and ParseColorError carry the whole
\* input of their from_str, ParseStyleError::Token carries the offending
\* token of the input; MissingBackground and MissingAttribute carry no
\* text.
C11_ErrorPayloads ==
    outcome.tag = "Err" =>
        CASE pc = "Attribute" -> outcome.err = [type |-> "ParseAttributeError", text |-> input]
          [] pc \in {"Color256", "RgbColor", "Color"} ->
                 outcome.err = [type |-> "ParseColorError", text |-> input]
          [] pc = "Style" ->
                 \/ /\ outcome.err.type = "Token"
                    /\ outcome.err.text # <<>>
                    /\ IsSubstring(outcome.err.text, input)
                    /\ \A i \in DOMAIN outcome.err.text : ~is_whitespace(outcome.err.text[i])
                    /\ Attribute_from_str(outcome.err.text).tag = "Err"
                    /\ Color_from_str(outcome.err.text).tag = "Err"
                 \/ outcome.err \in {[type |-> "MissingBackground"], [type |-> "MissingAttribute"]}

\* A Style::from_str that failed at its second token, kept in its case.
C11_TokenKeepsText ==
    /\ pc = "Style"
    /\ input = Str("bold fOO")
    /\ outcome = Err(Token(Str("fOO")))

\* ---------------------------------------------------------------------
\* Properties of Style::from_str on whole strings.

\* The tokens of s that are the word none, in any case.
NoneTokens(s) ==
    LET ts == split_whitespace(s)
    IN  {i \in DOMAIN ts : to_ascii_lowercase(ts[i]) = Str("none")}

\* C12: the empty string, and a string that is the word none in any case
\* with whitespace around it, parse to the empty Style; a string with
\* none among two or more tokens is a parse error.
C12_None ==
    pc = "Style" =>
        LET ts == split_whitespace(input)
        IN  /\ (input = <<>> \/ (Len(ts) = 1 /\ NoneTokens(input) = {1})) =>
                /\ outcome = Ok(Style_new)
                /\ Style_is_empty(outcome.val)
            /\ (Len(ts) >= 2 /\ NoneTokens(input) # {}) => outcome.tag = "Err"

\* " NONE " was parsed.
C12_PaddedNone ==
    /\ pc = "Style"
    /\ input = Str(" NONE ")
    /\ outcome = Ok(Style_new)

\* C13: a string, its ASCII-uppercased form and its ASCII-lowercased form
\* either all fail to parse as a Style or all parse to the same Style.
C13_CaseInsensitive ==
    pc = "Style" =>
        LET upper == Style_from_str(to_ascii_uppercase(input))
            lower == Style_from_str(to_ascii_lowercase(input))
        IN  IF outcome.tag = "Ok"
            THEN upper = outcome /\ lower = outcome
            ELSE upper.tag = "Err" /\ lower.tag = "Err"

\* A mixed-case string with an attribute, a keyword, an rgb(...) and a
\* color(...) word was parsed.
C13_MixedCaseParsed ==
    /\ pc = "Style"
    /\ input = Str("Bold Rgb(1,2,3) On Color(7)")
    /\ outcome = Ok(Style(Some(RgbColor(1, 2, 3)), Some(Color256(7)), SetOf({"Bold"}), EMPTY))

\* The maximal runs of characters of s outside the set ws, first to last.
Runs(s, ws) ==
    LET starts == {i \in DOMAIN s : s[i] \notin ws /\ (i = 1 \/ s[i - 1] \in ws)}
        stop(i) == CHOOSE j \in i..Len(s) :
                       /\ \A k \in i..j : s[k] \notin ws
                       /\ (j = Len(s) \/ s[j + 1] \in ws)
        nth(n) == CHOOSE i \in starts : Cardinality({x \in starts : x < i}) = n - 1
    IN  [n \in 1..Cardinality(starts) |-> SubSeq(s, nth(n), stop(nth(n)))]

\* The Style, or the error, that a sequence of tokens stands for.
OfTokens(ts) ==
    IF ts = <<>> \/ (Len(ts) = 1 /\ to_ascii_lowercase(ts[1]) = Str("none"))
    THEN Ok(Style_new)
    ELSE WhileLoop(Style_new, ts)

AsciiWhitespace == {" ", "\t", "\n", "\r", "\f"}

WhiteSpace ==
    AsciiWhitespace \cup
    {"U+000B", "U+0085", "U+00A0", "U+1680", "U+2000", "U+2001", "U+2002", "U+2003",
     "U+2004", "U+2005", "U+2006", "U+2007", "U+2008", "U+2009", "U+200A", "U+2028",
     "U+2029", "U+202F", "U+205F", "U+3000"}

\* C14 as stated: the tokens of a style string are its runs of characters
\* between ASCII whitespace; a non-ASCII whitespace character stays inside
\* its token and at the ends of the string.
C14_AsciiWhitespaceOnly ==
    pc = "Style" => outcome = OfTokens(Runs(input, AsciiWhitespace))

\* C14, amended: the tokens of a style string are its runs of characters
\* between characters with the Unicode White_Space property; U+00A0 and
\* U+3000 between two words separate them and are trimmed from the ends,
\* and the amount and kind of whitespace changes nothing else.
C14_UnicodeWhitespace ==
    pc = "Style" => outcome = OfTokens(Runs(input, WhiteSpace))

\* Two words with U+3000 before and U+00A0 between them were parsed as
\* two tokens.
C14_SplitAtNoBreakSpace ==
    /\ pc = "Style"
    /\ input = <<"U+3000">> \o Str("bold") \o <<"U+00A0">> \o Str("red")
    /\ outcome = Ok(Style(Some(Color256(1)), None, SetOf({"Bold"}), EMPTY))

\* ---------------------------------------------------------------------
\* Properties of AttributeSet.

\* C15: for every AttributeSet a, a | !a is ALL, a & !a is EMPTY and !!a
\* is a, !a holding the attributes of the thirteen that a lacks; and for
\* a single Attribute x, !x is ALL - x, every attribute but x.
C15_Complement ==
    pc = "set" =>
        LET a == attrset
            complement == not(a)
        IN  /\ bitor(a, complement) = ALL
            /\ bitand(a, complement) = EMPTY
            /\ not(complement) = a
            /\ Members(complement) = Attribute \ Members(a)
            /\ \A x \in Attribute :
                   a = AttributeSet_from(x) =>
                       /\ Attribute_not(x) = sub(ALL, a)
                       /\ Attribute_not(x) = complement
                       /\ Members(Attribute_not(x)) = Attribute \ {x}

\* The set of every attribute but Bold and Overline, which only ! or an
\* operation with ALL makes from the starting sets.
C15_ComplementReached ==
    /\ pc = "set"
    /\ Members(attrset) = Attribute \ {"Bold", "Overline"}

\* The bits of a u16 that are set, counted from 0.
Bits(n) == {k \in 0..(U16_BITS - 1) : (n \div 2 ^ k) % 2 = 1}

\* C16: a set made from EMPTY, ALL, new() and single attributes by the
\* operators, from_iter and extend has no bit outside the thirteen
\* attribute bits, and ALL has exactly those thirteen.
C16_DefinedBitsOnly ==
    /\ Bits(ALL) = {IndexOf(Attribute_iter, x) - 1 : x \in Attribute}
    /\ Cardinality(Bits(ALL)) = COUNT
    /\ pc = "set" =>
           /\ attrset \in 0..(2 ^ U16_BITS - 1)
           /\ Bits(attrset) \subseteq Bits(ALL)
           /\ SetOf(Members(attrset)) = attrset

\* A set with two of the three groups, one short of ALL by a group.
C16_NearAll ==
    /\ pc = "set"
    /\ Members(attrset) = Attribute \ {"Strike", "Underline2", "Frame", "Encircle", "Overline"}

\* ---------------------------------------------------------------------
\* Properties of AttributeSetIter.

\* The members of a set in declaration order.
InOrder(set) == SelectSeq(Attribute_iter, LAMBDA a : contains(set, a))

Reversed(s) == [i \in DOMAIN s |-> s[Len(s) + 1 - i]]

\* C17: under any interleaving of next() and next_back(), next() has
\* returned the first members in declaration order and next_back() the
\* last ones in reverse order, no attribute from both ends and no
\* non-member; a None is returned only when every member has been
\* returned, exactly once, and after a None every call returns None.
C17_DoubleEnded ==
    pc = "iter" =>
        LET members == InOrder(setiter.set)
            front == yielded.front
            back == yielded.back
        IN  /\ Len(front) + Len(back) <= Len(members)
            /\ front = SubSeq(members, 1, Len(front))
            /\ back = SubSeq(Reversed(members), 1, Len(back))
            /\ outcome # Null /\ outcome # None =>
                   \/ front # <<>> /\ outcome = Some(front[Len(front)])
                   \/ back # <<>> /\ outcome = Some(back[Len(back)])
            /\ yielded.none =>
                   /\ outcome = None
                   /\ front \o Reversed(back) = members
            /\ outcome = None => yielded.none

\* The calls of the crate's test double_ended_iteration, to the first
\* None.
C17_TestInterleaving ==
    /\ pc = "iter"
    /\ setiter.set = SetOf({"Bold", "Reverse", "Strike", "Frame"})
    /\ yielded = [front |-> <<"Bold", "Reverse">>, back |-> <<"Frame", "Strike">>, none |-> TRUE]

\* ---------------------------------------------------------------------
\* Properties of Attribute.

\* The short aliases.
Aliases ==
    {<<"b", "Bold">>, <<"d", "Dim">>, <<"i", "Italic">>, <<"u", "Underline">>,
     <<"r", "Reverse">>, <<"c", "Conceal">>, <<"s", "Strike">>, <<"uu", "Underline2">>}

\* The attributes that the string s names, in any case: by the long
\* name, which is the variant's name in lowercase, or by an alias.
NamedBy(s) ==
    LET low == to_ascii_lowercase(s)
    IN  {x \in Attribute : low = to_ascii_lowercase(Str(x))}
        \cup {p[2] : p \in {q \in Aliases : low = Str(q[1])}}

\* C18: Attribute::from_str returns the attribute whose long name or
\* alias the string is, in any case, and for every other string a
\* ParseAttributeError with the string unchanged; Display gives the
\* lowercase long name, and parsing it returns the attribute.
C18_AttributeNames ==
    /\ \A x \in Attribute : as_str(x) = to_ascii_lowercase(Str(x))
    /\ pc = "Attribute" =>
           /\ Cardinality(NamedBy(input)) <= 1
           /\ \A x \in NamedBy(input) : outcome = Ok(x)
           /\ NamedBy(input) = {} =>
                  outcome = Err([type |-> "ParseAttributeError", text |-> input])
           /\ \A x \in Attribute : input = as_str(x) => outcome = Ok(x)

\* The alias uu, in upper case, was parsed.
C18_AliasUpperCase ==
    /\ pc = "Attribute"
    /\ input = Str("UU")
    /\ outcome = Ok("Underline2")

\* ---------------------------------------------------------------------
\* Properties of Color256.

\* s with every "grey" spelled "gray", and the other way round.
Spelled(s, from, to) ==
    [i \in DOMAIN s |->
        IF i >= 3 /\ i + 1 <= Len(s) /\ s[i] = from
              /\ SubSeq(s, i - 2, i - 1) = Str("gr") /\ s[i + 1] = "y"
        THEN to ELSE s[i]]

Gray(s) == Spelled(s, "e", "a")

Grey(s) == Spelled(s, "a", "e")

\* An index in decimal digits, at most three.
Decimal(i) ==
    LET digit(n) == SubSeq(Str("0123456789"), n + 1, n + 1)
    IN  IF i < 10 THEN digit(i)
        ELSE IF i < 100 THEN digit(i \div 10) \o digit(i % 10)
        ELSE digit(i \div 100) \o digit((i \div 10) % 10) \o digit(i % 10)

\* C19: Color256(i) displays as its name when it has one and as color(i)
\* otherwise, and that string parses back to Color256(i); a name of the
\* by-name table parses to an index whose name() is that name or its
\* gray respelling, the gray and the grey spelling of a name, where the
\* table has both, parse to the same index, and Display never spells grey.
C19_Color256RoundTrip ==
    /\ (color.tag = "Color256" /\ input # Null) =>
           /\ input = (IF name(color.index) # None THEN name(color.index).val
                       ELSE Str("color(") \o Decimal(color.index) \o Str(")"))
           /\ Gray(input) = input
           /\ pc = "Color256" => outcome = Ok(color)
    /\ (pc = "Color256" /\ color = Null /\ input \in DOMAIN BY_NAME) =>
           /\ outcome.tag = "Ok"
           /\ name(outcome.val.index) # None
           /\ name(outcome.val.index).val \in {input, Gray(input)}
           /\ Color256_from_str(Gray(input)) = outcome
           /\ Grey(input) \in DOMAIN BY_NAME => Color256_from_str(Grey(input)) = outcome

\* An index without a name was displayed and parsed back.
C19_NamelessIndex ==
    /\ pc = "Color256"
    /\ color = Color256(19)
    /\ input = Str("color(19)")
    /\ outcome = Ok(Color256(19))

\* The index that s spells as color(<decimal digits>), the keyword in any
\* case and the number at most 255; None for every other string.
ColorIndexForm(s) ==
    LET n == Len(s)
        digits == SubSeq(s, 7, n - 1)
        value(ds) == LET RECURSIVE val(_)
                         val(k) == IF k = 0 THEN 0
                                   ELSE 10 * val(k - 1) + (IndexOf(DIGITS, ds[k]) - 1)
                     IN  val(Len(ds))
    IN  IF /\ n >= 8
           /\ to_ascii_lowercase(SubSeq(s, 1, 6)) = Str("color(")
           /\ s[n] = ")"
           /\ \A i \in DOMAIN digits : digits[i] \in Range(DIGITS)
           /\ value(digits) <= U8_MAX
        THEN Some(value(digits))
        ELSE None

\* C20: Color256::from_str succeeds only on a name of the table, in any
\* case, or on color(<decimal digits>) with a value of at most 255, giving
\* that index; on every other string it gives ParseColorError with the
\* string.
C20_NameOrDigits ==
    pc = "Color256" =>
        IF to_ascii_lowercase(input) \in DOMAIN BY_NAME
        THEN outcome = Ok(Color256(BY_NAME[to_ascii_lowercase(input)]))
        ELSE IF ColorIndexForm(input) # None
        THEN outcome = Ok(Color256(ColorIndexForm(input).val))
        ELSE outcome = Err(ParseColorError(input))

\* ---------------------------------------------------------------------
\* Properties of RgbColor.

\* The value of a hexadecimal digit of either case; -1 for any other
\* character.
HexDigit(c) ==
    LET lower == Str("0123456789abcdef")
        upper == Str("0123456789ABCDEF")
    IN  IF \E k \in 1..16 : lower[k] = c THEN (CHOOSE k \in 1..16 : lower[k] = c) - 1
        ELSE IF \E k \in 1..16 : upper[k] = c THEN (CHOOSE k \in 1..16 : upper[k] = c) - 1
        ELSE -1

\* s is # and six hexadecimal digits.
IsHexForm(s) ==
    /\ Len(s) = 7
    /\ s[1] = "#"
    /\ \A i \in 2..7 : HexDigit(s[i]) >= 0

\* C21: RgbColor::from_str takes # and exactly six hexadecimal digits of
\* either case as red, green and blue, two digits each; any other string
\* beginning with #, and six digits without the #, give ParseColorError
\* with the string.  The digits it slices by byte offset are one byte
\* each, so no slice or conversion can panic.
C21_HexForm ==
    pc = "RgbColor" =>
        /\ outcome.tag \in {"Ok", "Err"}
        /\ IsHexForm(input) =>
               outcome = Ok(RgbColor(16 * HexDigit(input[2]) + HexDigit(input[3]),
                                     16 * HexDigit(input[4]) + HexDigit(input[5]),
                                     16 * HexDigit(input[6]) + HexDigit(input[7])))
        /\ (~IsHexForm(input)
            /\ (input = <<>> \/ char_to_ascii_lowercase(Head(input)) # "r")) =>
               outcome = Err(ParseColorError(input))
        /\ OptionHex(input) # None =>
               /\ Len(OptionHex(input).val) = HEX_LEN
               /\ \A i \in DOMAIN OptionHex(input).val :
                      /\ len_utf8(OptionHex(input).val[i]) = 1
                      /\ HexDigit(OptionHex(input).val[i]) >= 0

\* A hexadecimal word in mixed case was parsed.
C21_MixedCaseHex ==
    /\ pc = "RgbColor"
    /\ input = Str("#000aFf")
    /\ outcome = Ok(RgbColor(0, 10, 255))

\* The components of rgb(<r>,<g>,<b>) as numbers when s has that form: the
\* keyword in any case, three runs of decimal digits with a value of at
\* most 255 each, two commas, nothing else; None for every other string.
RgbForm(s) ==
    LET n == Len(s)
        inner == SubSeq(s, 5, n - 1)
        commas == {i \in DOMAIN inner : inner[i] = ","}
        first == CHOOSE i \in commas : \A j \in commas : i <= j
        second == CHOOSE i \in commas : \A j \in commas : j <= i
        digit(c) == CHOOSE k \in 0..9 : Str("0123456789")[k + 1] = c
        value(ds) == LET RECURSIVE val(_)
                         val(k) == IF k = 0 THEN 0 ELSE 10 * val(k - 1) + digit(ds[k])
                     IN  val(Len(ds))
        parts == <<SubSeq(inner, 1, first - 1), SubSeq(inner, first + 1, second - 1),
                   SubSeq(inner, second + 1, Len(inner))>>
    IN  IF /\ n >= 6
           /\ to_ascii_lowercase(SubSeq(s, 1, 4)) = Str("rgb(")
           /\ s[n] = ")"
           /\ Cardinality(commas) = 2
           /\ \A i \in DOMAIN inner : inner[i] \in Range(Str("0123456789,"))
           /\ \A k \in 1..3 : parts[k] # <<>> /\ value(parts[k]) <= U8_MAX
        THEN Some(<<value(parts[1]), value(parts[2]), value(parts[3])>>)
        ELSE None

\* C22: RgbColor::from_str takes rgb(<r>,<g>,<b>), the keyword in any
\* case and each component decimal digits with a value of 0 to 255, and
\* gives ParseColorError with the string for every other string that is
\* not the # form: another number of components, a component out of range
\* or not in decimal digits, whitespace anywhere.
C22_RgbForm ==
    pc = "RgbColor" =>
        IF RgbForm(input) # None
        THEN outcome = Ok(RgbColor(RgbForm(input).val[1], RgbForm(input).val[2],
                                   RgbForm(input).val[3]))
        ELSE ~IsHexForm(input) => outcome = Err(ParseColorError(input))

\* Two lowercase hexadecimal digits for a byte.
Hex2(n) ==
    LET digits == Str("0123456789abcdef")
    IN  <<digits[(n \div 16) + 1], digits[(n % 16) + 1]>>

\* C23: an RgbColor displays as # and six lowercase hexadecimal digits,
\* two per channel with a leading zero where needed, red first; that
\* string parses back to the same RgbColor, and so does rgb(r,g,b) with
\* the three values in decimal.
C23_RgbRoundTrip ==
    (color.tag = "Rgb" /\ input # Null) =>
        /\ input = Str("#") \o Hex2(color.red) \o Hex2(color.green) \o Hex2(color.blue)
        /\ Len(input) = 7
        /\ pc = "RgbColor" => outcome = Ok(color)
        /\ RgbColor_from_str(Str("rgb(") \o Decimal(color.red) \o Str(",")
                             \o Decimal(color.green) \o Str(",")
                             \o Decimal(color.blue) \o Str(")")) = Ok(color)

\* A color whose channels need padding was displayed and parsed back.
C23_PaddedChannels ==
    /\ pc = "RgbColor"
    /\ color = RgbColor(0, 10, 255)
    /\ input = Str("#000aff")
    /\ outcome = Ok(RgbColor(0, 10, 255))

\* ---------------------------------------------------------------------
\* Properties of Color.

\* C24: Color::from_str gives Default for default in any case, else what
\* Color256::from_str gives when it succeeds, else what RgbColor::from_str
\* gives when it succeeds, else ParseColorError with the string; a Color
\* displays as default or as its payload does, and that string parses
\* back to the Color.
C24_ColorParseDisplay ==
    /\ pc = "Color" =>
           IF to_ascii_lowercase(input) = Str("default") THEN outcome = Ok(Color_Default)
           ELSE IF Color256_from_str(input).tag = "Ok"
           THEN outcome = Ok(Color256(Color256_from_str(input).val.index))
           ELSE IF RgbColor_from_str(input).tag = "Ok"
           THEN outcome = Ok(RgbColor(RgbColor_from_str(input).val.red,
                                      RgbColor_from_str(input).val.green,
                                      RgbColor_from_str(input).val.blue))
           ELSE outcome = Err(ParseColorError(input))
    /\ (color # Null /\ input # Null) =>
           /\ input = CASE color.tag = "Default" -> Str("default")
                        [] color.tag = "Color256" ->
                               IF name(color.index) # None THEN name(color.index).val
                               ELSE Str("color(") \o Decimal(color.index) \o Str(")")
                        [] color.tag = "Rgb" ->
                               Str("#") \o Hex2(color.red) \o Hex2(color.green)
                               \o Hex2(color.blue)
           /\ pc = "Color" => outcome = Ok(color)

\* Color::Default was displayed and parsed back.
C24_DefaultRoundTrip ==
    /\ pc = "Color"
    /\ color = Color_Default
    /\ input = Str("default")
    /\ outcome = Ok(Color_Default)

\* The enabled/disabled state of every attribute outside attrs, and both
\* colors, are the same in s and t.
SameOutside(s, attrs, t) ==
    /\ \A x \in Attribute \ Members(attrs) :
           /\ is_enabled(t, x) = is_enabled(s, x)
           /\ is_disabled(t, x) = is_disabled(s, x)
    /\ t.foreground = s.foreground
    /\ t.background = s.background

\* C25: for the held Style s and every attribute set A, s.enable(A) has
\* every attribute of A enabled and not disabled, and the state of every
\* attribute outside A and both colors as in s; the same for s.disable(A)
\* with the roles swapped.  s.enabled_attributes(A) has exactly A enabled,
\* has A taken out of the disabled set and keeps the colors, and the same
\* for s.disabled_attributes(A) with the roles swapped.  Enabling or
\* disabling A a second time changes nothing, and of enable(A) and
\* disable(A) the one applied later decides A.
C25_EnableDisable ==
    \A A \in AttrArgs :
        /\ LET t == enable(style, A) IN
               /\ \A x \in Members(A) : is_enabled(t, x) /\ ~is_disabled(t, x)
               /\ SameOutside(style, A, t)
               /\ enable(t, A) = t
               /\ \A x \in Members(A) :
                      is_disabled(disable(t, A), x) /\ ~is_enabled(disable(t, A), x)
        /\ LET t == disable(style, A) IN
               /\ \A x \in Members(A) : is_disabled(t, x) /\ ~is_enabled(t, x)
               /\ SameOutside(style, A, t)
               /\ disable(t, A) = t
               /\ \A x \in Members(A) :
                      is_enabled(enable(t, A), x) /\ ~is_disabled(enable(t, A), x)
        /\ LET t == enabled_attributes(style, A) IN
               /\ Members(t.enabled_attributes) = Members(A)
               /\ Members(t.disabled_attributes)
                      = Members(style.disabled_attributes) \ Members(A)
               /\ t.foreground = style.foreground
               /\ t.background = style.background
        /\ LET t == disabled_attributes(style, A) IN
               /\ Members(t.disabled_attributes) = Members(A)
               /\ Members(t.enabled_attributes)
                      = Members(style.enabled_attributes) \ Members(A)
               /\ t.foreground = style.foreground
               /\ t.background = style.background

\* A Style with both colors set has some attributes enabled and others
\* disabled, as after enable and disable calls with different sets.
C25_EnabledAndDisabled ==
    /\ style.foreground # None
    /\ style.background # None
    /\ style.enabled_attributes # EMPTY
    /\ style.disabled_attributes # EMPTY
    /\ text = Null

\* C26: the Style that a step converts from a ratatui Style has no attribute
\* in both its enabled and its disabled set, whatever add_modifier and
\* sub_modifier are, modifiers present in both included.
C26_ConversionDisjoint ==
    [][\A add \in ModifierArgs, rem \in ModifierArgs :
           style' = Style_from_ratatui([fg |-> None, bg |-> None,
                                        add_modifier |-> add, sub_modifier |-> rem])
           => Enabled(style') \cap Disabled(style') = {}]_vars

\* The Styles of PatchStyles whose two sets are disjoint.
DisjointStyles == {s \in PatchStyles : Disjoint(s)}

\* C27: for Styles a and b with disjoint sets, Style::new() is a left and a
\* right identity of patch, a.patch(a) is a, a.patch(b) has disjoint sets
\* again, and (a.patch(b)).patch(c) is a.patch(b.patch(c)) for every c with
\* disjoint sets.
C27_PatchMonoid ==
    (patched # Null /\ Disjoint(self_) /\ Disjoint(other)) =>
        /\ patch(Style_new, self_) = self_
        /\ patch(self_, Style_new) = self_
        /\ patch(self_, self_) = self_
        /\ Disjoint(patched)
        /\ \A c \in DisjointStyles :
               patch(patched, c) = patch(self_, patch(other, c))

\* A patch of two Styles with disjoint sets in which the second overrides
\* an attribute and a color shows through from it.
C27_DisjointOperands ==
    /\ patched # Null
    /\ Disjoint(self_) /\ Disjoint(other)
    /\ Enabled(self_) = {"Bold"} /\ Disabled(self_) = {"Dim", "Overline"}
    /\ Disabled(other) = {"Bold"} /\ Enabled(other) = {"Dim", "Overline"}
    /\ self_.foreground = None /\ other.foreground = Some(Color256(1))
    /\ patched = other

RECURSIVE AttributeGroups(_)
\* The tokens are a sequence of groups, each an attribute name or `not`
\* and an attribute name.
AttributeGroups(ws) ==
    IF ws = <<>> THEN TRUE
    ELSE IF eq_ignore_ascii_case(Head(ws), Str("not"))
    THEN /\ Len(ws) >= 2
         /\ Attribute_from_str(ws[2]).tag = "Ok"
         /\ AttributeGroups(Tail(Tail(ws)))
    ELSE /\ Attribute_from_str(Head(ws)).tag = "Ok"
         /\ AttributeGroups(Tail(ws))

\* C28: when from_str has returned for an input that is a, one space, b,
\* where a and b are each one or more attribute or `not` attribute groups
\* and each parse, the result is Ok of parse(a).patch(parse(b)).
C28_ConcatenationIsPatch ==
    pc = "returned" =>
        LET ws == split_whitespace(input)
        IN  \A k \in 1..(Len(ws) - 1) :
                LET ta == SubSeq(ws, 1, k)
                    tb == SubSeq(ws, k + 1, Len(ws))
                    a == Join(ta, Str(" "))
                    b == Join(tb, Str(" "))
                IN  ( /\ input = a \o Str(" ") \o b
                      /\ AttributeGroups(ta) /\ AttributeGroups(tb)
                      /\ Style_from_str(a).tag = "Ok"
                      /\ Style_from_str(b).tag = "Ok" )
                    => outcome = Ok(patch(Style_from_str(a).val, Style_from_str(b).val))

\* "bold" and "not bold" were parsed as one string: the later group decides.
C28_EnableThenDisable ==
    /\ pc = "returned"
    /\ input = Str("bold not bold")
    /\ outcome = Ok(patch(Style_from_str(Str("bold")).val, Style_from_str(Str("not bold")).val))
    /\ Disabled(outcome.val) = {"Bold"}
    /\ Enabled(outcome.val) = {}

\* The words of the style grammar that are neither colors nor attributes.
KEYWORDS == {Str("on"), Str("not"), Str("none")}

\* C29: a string that Attribute::from_str accepts is rejected by
\* Color::from_str and the other way round; one that Color256::from_str
\* accepts is rejected by RgbColor::from_str and the other way round; on,
\* not, none and default in any letter case are rejected by
\* Attribute::from_str, and on, not, none by Color::from_str; and
\* Color::from_str gives what it would give trying RgbColor first, then
\* Color256, then default.
C29_TokenClassesDisjoint ==
    /\ (pc = "Attribute" /\ outcome.tag = "Ok") =>
           /\ Color_from_str(input).tag = "Err"
           /\ to_ascii_lowercase(input) \notin KEYWORDS \cup {Str("default")}
    /\ (pc = "Color" /\ outcome.tag = "Ok") =>
           /\ Attribute_from_str(input).tag = "Err"
           /\ to_ascii_lowercase(input) \notin KEYWORDS
    /\ (pc = "Color256" /\ outcome.tag = "Ok") =>
           /\ RgbColor_from_str(input).tag = "Err"
           /\ ~eq_ignore_ascii_case(input, Str("default"))
    /\ (pc = "RgbColor" /\ outcome.tag = "Ok") =>
           /\ Color256_from_str(input).tag = "Err"
           /\ ~eq_ignore_ascii_case(input, Str("default"))
    /\ (pc = "Attribute" /\ to_ascii_lowercase(input) \in KEYWORDS \cup {Str("default")}) =>
           outcome.tag = "Err"
    /\ (pc = "Color" /\ to_ascii_lowercase(input) \in KEYWORDS) => outcome.tag = "Err"
    /\ pc = "Color" =>
           outcome = IF RgbColor_from_str(input).tag = "Ok" THEN RgbColor_from_str(input)
                     ELSE IF Color256_from_str(input).tag = "Ok" THEN Color256_from_str(input)
                     ELSE IF eq_ignore_ascii_case(input, Str("default")) THEN Ok(Color_Default)
                     ELSE RgbColor_from_str(input)

\* Color::from_str was called on a keyword in capitals and refused it.
C29_KeywordIsNoColor ==
    /\ pc = "Color"
    /\ input = Str("NOT")
    /\ outcome = Err(ParseColorError(Str("NOT")))

\* The attributes that have no ratatui Modifier.
DISCARDED == {"Underline2", "Frame", "Encircle", "Overline"}

\* C30: an AttributeSet converted to a ratatui Modifier and back is the
\* set without Underline2, Frame, Encircle and Overline; each of the other
\* nine attributes, Blink2 included, is in the result exactly when it was
\* in the set.
C30_ModifierRoundTrip ==
    pc = "AttributeSet" =>
        /\ Members(outcome.bits) = Members(attrset) \ DISCARDED
        /\ \A x \in Attribute \ DISCARDED :
               contains(outcome.bits, x) <=> contains(attrset, x)
====
